---- MODULE Spec2Model ----
(***************************************************************************)
(* Model of browser_use.agent.service.Agent: the run()/step() state        *)
(* machine, its failure policy and the message list it keeps for the LLM.  *)
(*                                                                         *)
(* Strings are modelled as TLA+ strings, so slicing, concatenation and     *)
(* length are the real operations.  Python None is the value Null.         *)
(* One agent performs one run() (Idle -> Running -> terminal).             *)
(* Spec is the single agent in full detail; SpecLoop is several agents on  *)
(* one asyncio event loop, with each agent's data reduced to counters.     *)
(* SpecViews, SpecCycle and SpecHash are the DOM node model, SpecPrompt    *)
(* the observation text, SpecBudget and SpecMemory the budget enforcement  *)
(* and the memory filter as functions of their inputs, SpecRecorder the    *)
(* interaction recorder watchdog.                                          *)
(***************************************************************************)
EXTENDS Integers, Sequences, FiniteSets, TLC

\* ---------------------------------------------------------------- bounds
\* run(max_steps) is called with max_steps in 0..MaxStepsBound
MaxStepsBound == 3
\* the agent is constructed with max_failures in 0..MaxFailuresBound
MaxFailuresBound == 2
\* number of agents whose run() coroutines share one asyncio event loop
NumAgents == 2

\* ---------------------------------------------------------------- inputs
Null == "<null>"
\* python None where a node is expected
NoNode == 0
\* python None where a highlight_index is expected
NoIndex == -1

\* no method has been called yet
NoCall == [method |-> "none", self |-> NoNode, arg |-> NoNode, result |-> NoNode]

\* an InteractionRecorderWatchdog after construction: not recording, no
\* handler was started, nothing was dispatched on the event bus
NewRecorder == [_is_recording |-> FALSE, handlers |-> << >>, dispatched |-> << >>]

\* text of the system prompt and of the task given at construction
SystemPrompts == {"SYSTEM PROMPT"}
Tasks == {"buy"}
\* values of max_input_tokens: below the system message, between system and
\* system+task, room for a short observation only, room for part of the
\* history, room for everything
Budgets == {5, 10, 16, 26, 64}
\* text of the user message composed from the browser state of a step
Observations == {"[0]<a/>", "[0]<a/>[1]<input/>"}
\* serialized decisions the LLM can return
AgentOutputs == {"click(1)"}
\* results the Controller can return from act()
ActResults ==
  { [extracted_content |-> Null, error |-> Null, include_in_memory |-> FALSE, is_done |-> FALSE],
    [extracted_content |-> "page text", error |-> Null, include_in_memory |-> TRUE, is_done |-> FALSE],
    [extracted_content |-> "finished", error |-> Null, include_in_memory |-> FALSE, is_done |-> TRUE],
    [extracted_content |-> Null, error |-> "no such element", include_in_memory |-> FALSE, is_done |-> FALSE] }
\* exceptions the LLM call can raise
LLMErrors ==
  { [cls |-> "ValidationError", msg |-> "invalid output"],
    [cls |-> "RateLimitError", msg |-> "rate limit"],
    [cls |-> "Exception", msg |-> ""] }
\* exceptions Controller.act can raise
ActErrors ==
  { [cls |-> "ValueError", msg |-> "bad index"],
    [cls |-> "Exception", msg |-> "click failed"] }
\* exception raised when the transcript file cannot be written
SaveError == [cls |-> "OSError", msg |-> "cannot write"]
\* exception raised by the budget check of _cut_input_messages
SystemTooLong == [cls |-> "ValueError", msg |-> "System message is too long"]

VARIABLES
  max_failures,            \* self.max_failures
  max_input_tokens,        \* self.max_input_tokens
  save_conversation_path,  \* TRUE iff a transcript path was given
  controller_injected,     \* self.controller_injected
  messages,                \* self.messages
  history,                 \* self.history
  n_steps,                 \* self.n_steps
  consecutive_failures,    \* self.consecutive_failures
  pc,                      \* position of the run()/step() coroutine
  max_steps,               \* argument of run()
  step,                    \* number of loop iterations of run() begun
  state,                   \* local `state` of step()
  input_messages,          \* message list handed to the LLM in this step
  model_output,            \* local `model_output` of step()
  pending,                 \* exception caught by the except clause of step()
  stop,                    \* how run() ended
  browser_closed,          \* controller.browser.close() was called
  thread,                  \* agent whose coroutine occupies the event loop thread, 0: none
  agents,                  \* per agent on the shared event loop: its coroutines and state
  dom,                     \* the DOM nodes of one snapshot, by node identity
  call,                    \* the last method call on the snapshot and what it returned
  hash_calls,              \* per node: invocations of the element hashing function
  recorder                 \* the interaction recorder watchdog and its event handlers

vars == << max_failures, max_input_tokens, save_conversation_path, controller_injected,
           messages, history, n_steps, consecutive_failures, pc, max_steps, step,
           state, input_messages, model_output, pending, stop, browser_closed,
           thread, agents, dom, call, hash_calls, recorder >>

\* the state of the several-agent view of the program
loop == << thread, agents >>

\* the state outside the agent: the DOM node model, the interaction recorder
views == << dom, call, hash_calls, recorder >>

\* the state of the single-agent view of the program
single == << max_failures, max_input_tokens, save_conversation_path, controller_injected,
             messages, history, n_steps, consecutive_failures, pc, max_steps, step,
             state, input_messages, model_output, pending, stop, browser_closed >>

config == << max_failures, max_input_tokens, save_conversation_path, controller_injected >>

\* ------------------------------------------------------------- messages
SystemMessage(text) == [type |-> "system", content |-> text, include_in_memory |-> TRUE]
\* HumanMessage built by the agent itself; the agent never passes the
\* include_in_memory flag, such messages are kept by the memory filter
HumanMessage(text) == [type |-> "human", content |-> text, include_in_memory |-> TRUE]
\* variant: the decision is stored as a Human message
AIMessage_as_human(text) == [type |-> "human", content |-> text, include_in_memory |-> TRUE]

AIMessage(text) == [type |-> "ai", content |-> text, include_in_memory |-> TRUE]

\* langchain get_buffer_string of one message: role prefix and content
get_buffer_string(m) ==
  (CASE m.type = "system" -> "System: "
     [] m.type = "human" -> "Human: "
     [] m.type = "ai" -> "AI: ") \o m.content

\* llm.get_num_tokens: a tokenizer of four characters per token
get_num_tokens(text) == (Len(text) + 3) \div 4

get_message_tokens(m) == get_num_tokens(get_buffer_string(m))

_calc_token_count(ms) == [i \in 1..Len(ms) |-> get_message_tokens(ms[i])]

RECURSIVE sum(_)
sum(s) == IF s = <<>> THEN 0 ELSE Head(s) + sum(Tail(s))

\* python s[:n]
Prefix(s, n) == IF n <= 0 THEN SubSeq(s, 1, 0) ELSE SubSeq(s, 1, IF n < Len(s) THEN n ELSE Len(s))

\* variant: pop(1), the index is off by one
Pop1(s) == SubSeq(s, 1, 1) \o SubSeq(s, 3, Len(s))

\* variant: pop(-2), the newest history message is removed first
PopNewest(s) == SubSeq(s, 1, Len(s) - 2) \o SubSeq(s, Len(s), Len(s))

\* python list.pop(2)
Pop2(s) == SubSeq(s, 1, 2) \o SubSeq(s, 4, Len(s))

\* the binary search of _cut_input_messages
RECURSIVE binary_search(_, _, _, _)
binary_search(low, high, message_content, available_tokens) ==
  IF low < high
  THEN LET mid == (low + high) \div 2
       IN IF get_num_tokens(Prefix(message_content, mid)) > available_tokens
          THEN binary_search(low, mid, message_content, available_tokens)
          ELSE binary_search(mid + 1, high, message_content, available_tokens)
  ELSE low

\* variant: the loop removes history while the list fits the budget
RECURSIVE evict_while_fits(_, _)
evict_while_fits(ms, budget) ==
  IF sum(_calc_token_count(ms)) <= budget /\ Len(ms) > 3
  THEN evict_while_fits(Pop2(ms), budget)
  ELSE ms

\* variant: at most one history message is removed
evict_once(ms, budget) ==
  IF sum(_calc_token_count(ms)) > budget /\ Len(ms) > 3
  THEN Pop2(ms)
  ELSE ms

\* the eviction loop of _cut_input_messages
RECURSIVE evict(_, _)
evict(ms, budget) ==
  IF sum(_calc_token_count(ms)) > budget /\ Len(ms) > 3
  THEN evict(Pop2(ms), budget)
  ELSE ms

\* the budget check that raises ValueError('System message is too long')
system_message_too_long(ms, budget) == _calc_token_count(ms)[1] > budget

\* the test that selects the truncation branch
current_message_too_long(ms, budget) ==
  LET token_count == _calc_token_count(ms)
  IN token_count[1] + token_count[2] + token_count[Len(ms)] > budget

\* variant: the truncation branch keeps the stored history
_cut_input_messages_keeps_history(ms, budget) ==
  LET token_count == _calc_token_count(ms)
  IN IF system_message_too_long(ms, budget)
     THEN [raised |-> TRUE, input_messages |-> ms, messages |-> SubSeq(ms, 1, Len(ms) - 1)]
     ELSE IF current_message_too_long(ms, budget)
     THEN LET current_message == ms[Len(ms)]
              available_tokens == budget - token_count[1] - token_count[2]
              low == binary_search(0, Len(current_message.content),
                                   get_buffer_string(current_message), available_tokens)
              cut == [current_message EXCEPT !.content = Prefix(current_message.content, low)]
          IN [raised |-> FALSE,
              input_messages |-> << ms[1], ms[2], cut >>,
              messages |-> SubSeq(ms, 1, Len(ms) - 1)]
     ELSE LET kept == evict(ms, budget)
          IN [raised |-> FALSE,
              input_messages |-> kept,
              messages |-> SubSeq(kept, 1, Len(kept) - 1)]

\* variant: the whole retained list, observation included, becomes the baseline
_cut_input_messages_stores_observation(ms, budget) ==
  LET token_count == _calc_token_count(ms)
  IN IF system_message_too_long(ms, budget)
     THEN [raised |-> TRUE, input_messages |-> ms, messages |-> SubSeq(ms, 1, Len(ms) - 1)]
     ELSE IF current_message_too_long(ms, budget)
     THEN LET current_message == ms[Len(ms)]
              available_tokens == budget - token_count[1] - token_count[2]
              low == binary_search(0, Len(current_message.content),
                                   get_buffer_string(current_message), available_tokens)
              cut == [current_message EXCEPT !.content = Prefix(current_message.content, low)]
          IN [raised |-> FALSE,
              input_messages |-> << ms[1], ms[2], cut >>,
              messages |-> << ms[1], ms[2] >>]
     ELSE LET kept == evict(ms, budget)
          IN [raised |-> FALSE,
              input_messages |-> kept,
              messages |-> kept]

\* _cut_input_messages: raised, or the list returned and self.messages
_cut_input_messages(ms, budget) ==
  LET token_count == _calc_token_count(ms)
  IN IF system_message_too_long(ms, budget)
     THEN [raised |-> TRUE, input_messages |-> ms, messages |-> SubSeq(ms, 1, Len(ms) - 1)]
     ELSE IF current_message_too_long(ms, budget)
     THEN LET current_message == ms[Len(ms)]
              available_tokens == budget - token_count[1] - token_count[2]
              low == binary_search(0, Len(current_message.content),
                                   get_buffer_string(current_message), available_tokens)
              cut == [current_message EXCEPT !.content = Prefix(current_message.content, low)]
          IN [raised |-> FALSE,
              input_messages |-> << ms[1], ms[2], cut >>,
              messages |-> << ms[1], ms[2] >>]
     ELSE LET kept == evict(ms, budget)
          IN [raised |-> FALSE,
              input_messages |-> kept,
              messages |-> SubSeq(kept, 1, Len(kept) - 1)]

\* python truthiness of an optional string
Truthy(s) == s # Null /\ s # ""

\* variant: the error of a result is not appended
_update_messages_without_error(ms, result) ==
  LET kept == SelectSeq(ms, LAMBDA m : m.type # "human" \/ m.include_in_memory)
  IN IF Truthy(result.extracted_content)
     THEN Append(kept, HumanMessage(result.extracted_content))
     ELSE Append(kept, HumanMessage(""))

\* variant: no stored message is filtered out
_update_messages_unfiltered(ms, result) ==
  LET kept == ms
      with_content == IF Truthy(result.extracted_content)
                      THEN Append(kept, HumanMessage(result.extracted_content))
                      ELSE kept
      with_error == IF Truthy(result.error)
                    THEN Append(with_content, HumanMessage(result.error))
                    ELSE with_content
  IN IF ~Truthy(result.extracted_content) /\ ~Truthy(result.error)
     THEN Append(with_error, HumanMessage(""))
     ELSE with_error

\* _update_messages_with_result
_update_messages_with_result(ms, result) ==
  LET kept == SelectSeq(ms, LAMBDA m : m.type # "human" \/ m.include_in_memory)
      with_content == IF Truthy(result.extracted_content)
                      THEN Append(kept, HumanMessage(result.extracted_content))
                      ELSE kept
      with_error == IF Truthy(result.error)
                    THEN Append(with_content, HumanMessage(result.error))
                    ELSE with_content
  IN IF ~Truthy(result.extracted_content) /\ ~Truthy(result.error)
     THEN Append(with_error, HumanMessage(""))
     ELSE with_error

\* variant: a failed step records no entry
_make_history_item_skips_failed(h, output, browser_state, result) ==
  IF output = Null THEN h
  ELSE Append(h, [model_output |-> output, result |-> result, state |-> browser_state])

\* _make_history_item
_make_history_item(h, output, browser_state, result) ==
  Append(h, [model_output |-> output, result |-> result, state |-> browser_state])

\* AgentError.format_error: the text of the exception
format_error(e) == e.msg

\* variant: the rate-limit branch forgets the increment
failures_after_error_no_rate_limit(cf, e) ==
  IF e.cls \in {"ValidationError", "ValueError"} THEN cf + 1
  ELSE IF e.cls = "RateLimitError" THEN cf
  ELSE cf + 1

\* variant: the generic branch forgets the increment
failures_after_error_generic_uncounted(cf, e) ==
  IF e.cls \in {"ValidationError", "ValueError"} THEN cf + 1
  ELSE IF e.cls = "RateLimitError" THEN cf + 1
  ELSE cf

\* the counter after _handle_step_error; every class adds one
failures_after_error(cf, e) ==
  IF e.cls \in {"ValidationError", "ValueError"} THEN cf + 1
  ELSE IF e.cls = "RateLimitError" THEN cf + 1
  ELSE cf + 1

\* variant: the synthetic result is not kept in memory
error_result_not_in_memory(e) ==
  [extracted_content |-> Null, error |-> format_error(e), include_in_memory |-> FALSE, is_done |-> FALSE]

\* variant: the synthetic result of a failed step is marked done
error_result_done(e) ==
  [extracted_content |-> Null, error |-> format_error(e), include_in_memory |-> TRUE, is_done |-> TRUE]

\* the ActionResult returned by _handle_step_error
error_result(e) ==
  [extracted_content |-> Null, error |-> format_error(e), include_in_memory |-> TRUE, is_done |-> FALSE]

\* variant: the counter is not reset
failures_after_success_no_reset(cf) == cf

\* the counter after a step whose try block completed
failures_after_success(cf) == 0

\* variant: the ceiling is tested with > instead of >=
_too_many_failures_off_by_one == consecutive_failures > max_failures

_too_many_failures == consecutive_failures >= max_failures

\* variant: the first history entry is tested instead of the last
_is_task_complete_first_entry == history # <<>> /\ history[1].result.is_done

_is_task_complete == history # <<>> /\ history[Len(history)].result.is_done

\* ---------------------------------------------------------------- Init
Init ==
  /\ max_failures \in 0..MaxFailuresBound
  /\ max_input_tokens \in Budgets
  /\ save_conversation_path \in BOOLEAN
  /\ controller_injected \in BOOLEAN
  /\ \E sp \in SystemPrompts, task \in Tasks :
       messages = << SystemMessage(sp), HumanMessage("Your task is: " \o task) >>
  /\ history = <<>>
  /\ n_steps = 1
  /\ consecutive_failures = 0
  /\ pc = "idle"
  /\ max_steps = 0
  /\ step = 0
  /\ state = Null
  /\ input_messages = <<>>
  /\ model_output = Null
  /\ pending = Null
  /\ stop = "none"
  /\ browser_closed = FALSE
  /\ thread = 0
  /\ agents = << >>
  /\ dom = << >>
  /\ call = NoCall
  /\ hash_calls = << >>
  /\ recorder = NewRecorder

\* -------------------------------------------------------------- actions
\* the end of step() on the except path: _handle_step_error after any
\* sleep, then _update_messages_with_result and _make_history_item
StepFails(e, ms) ==
  LET result == error_result(e)
  IN /\ consecutive_failures' = failures_after_error(consecutive_failures, e)
     /\ model_output' = Null
     /\ messages' = _update_messages_with_result(ms, result)
     /\ history' = _make_history_item(history, Null, state, result)
     /\ pending' = Null
     /\ pc' = "step_done"

\* an exception raised inside the try block of step() reaches the except
\* clause; ms is self.messages at that moment
Raise(e, ms) ==
  /\ pending' = e
  /\ messages' = ms
  /\ pc' = "except"
  /\ UNCHANGED << consecutive_failures, model_output, history >>

\* run(max_steps) is called
Run ==
  /\ pc = "idle"
  /\ \E n \in 0..MaxStepsBound : max_steps' = n
  /\ step' = 0
  /\ pc' = "for"
  /\ UNCHANGED << loop, views, config, messages, history, n_steps, consecutive_failures, state,
                  input_messages, model_output, pending, stop, browser_closed >>

\* range(max_steps) is exhausted: the else clause of the for loop
ForElse ==
  /\ pc = "for"
  /\ step = max_steps
  /\ stop' = "MaxSteps"
  /\ pc' = "finally"
  /\ UNCHANGED << loop, views, config, messages, history, n_steps, consecutive_failures, max_steps,
                  step, state, input_messages, model_output, pending, browser_closed >>

\* if self._too_many_failures(): break
TooManyFailuresBreak ==
  /\ pc = "for"
  /\ step < max_steps
  /\ _too_many_failures
  /\ stop' = "MaxFailures"
  /\ pc' = "finally"
  /\ UNCHANGED << loop, views, config, messages, history, n_steps, consecutive_failures, max_steps,
                  step, state, input_messages, model_output, pending, browser_closed >>

\* await self.step() is entered
StepBegin ==
  /\ pc = "for"
  /\ step < max_steps
  /\ ~_too_many_failures
  /\ step' = step + 1
  /\ pc' = "get_state"
  /\ UNCHANGED << loop, views, config, messages, history, n_steps, consecutive_failures, max_steps,
                  state, input_messages, model_output, pending, stop, browser_closed >>

\* controller.browser.get_state returns
GetState ==
  /\ pc = "get_state"
  /\ \E obs \in Observations : state' = obs
  /\ pc' = "get_next_action"
  /\ UNCHANGED << loop, views, config, messages, history, n_steps, consecutive_failures, max_steps,
                  step, input_messages, model_output, pending, stop, browser_closed >>

\* controller.browser.get_state raises: outside the try of step(), the
\* exception leaves step() and run()
GetStateRaises ==
  /\ pc = "get_state"
  /\ stop' = "Raised"
  /\ pc' = "finally"
  /\ UNCHANGED << loop, views, config, messages, history, n_steps, consecutive_failures, max_steps,
                  step, state, input_messages, model_output, pending, browser_closed >>

\* get_next_action up to the LLM call: compose, _cut_input_messages
CutInputMessages ==
  /\ pc = "get_next_action"
  /\ LET new_message == HumanMessage(state)
         r == _cut_input_messages(Append(messages, new_message), max_input_tokens)
     IN IF r.raised
        THEN /\ Raise(SystemTooLong, messages)
             /\ UNCHANGED input_messages
        ELSE /\ messages' = r.messages
             /\ input_messages' = r.input_messages
             /\ pc' = "ainvoke"
             /\ UNCHANGED << consecutive_failures, model_output, history, pending >>
  /\ UNCHANGED << loop, views, config, n_steps, max_steps, step, state, stop, browser_closed >>

\* variant: the transcript is written outside the try block, its exception
\* leaves step() and run()
LLMReturns_save_uncaught ==
  /\ pc = "ainvoke"
  /\ \E parsed \in AgentOutputs, written \in BOOLEAN :
       LET ms == Append(messages, AIMessage(parsed))
       IN IF save_conversation_path /\ ~written
          THEN /\ messages' = ms
               /\ stop' = "Raised"
               /\ pc' = "finally"
               /\ UNCHANGED << n_steps, consecutive_failures, model_output, history, pending >>
          ELSE /\ written
               /\ messages' = ms
               /\ n_steps' = n_steps + 1
               /\ model_output' = parsed
               /\ pc' = "act"
               /\ UNCHANGED << consecutive_failures, history, pending, stop >>
  /\ UNCHANGED << loop, views, config, max_steps, step, state, input_messages, browser_closed >>

\* variant: the transcript is written before the decision is appended to
\* the conversation
LLMReturns_save_before_append ==
  /\ pc = "ainvoke"
  /\ \E parsed \in AgentOutputs, written \in BOOLEAN :
       LET ms == Append(messages, AIMessage(parsed))
       IN IF save_conversation_path /\ ~written
          THEN /\ Raise(SaveError, messages)
               /\ UNCHANGED n_steps
          ELSE /\ written
               /\ messages' = ms
               /\ n_steps' = n_steps + 1
               /\ model_output' = parsed
               /\ pc' = "act"
               /\ UNCHANGED << consecutive_failures, history, pending >>
  /\ UNCHANGED << loop, views, config, max_steps, step, state, input_messages, stop, browser_closed >>

\* the LLM returns a parsed decision: _update_message_history,
\* _save_conversation, n_steps += 1
LLMReturns ==
  /\ pc = "ainvoke"
  /\ \E parsed \in AgentOutputs, written \in BOOLEAN :
       LET ms == Append(messages, AIMessage(parsed))
       IN IF save_conversation_path /\ ~written
          THEN /\ Raise(SaveError, ms)
               /\ UNCHANGED n_steps
          ELSE /\ written
               /\ messages' = ms
               /\ n_steps' = n_steps + 1
               /\ model_output' = parsed
               /\ pc' = "act"
               /\ UNCHANGED << consecutive_failures, history, pending >>
  /\ UNCHANGED << loop, views, config, max_steps, step, state, input_messages, stop, browser_closed >>

\* the LLM call raises
LLMRaises ==
  /\ pc = "ainvoke"
  /\ \E e \in LLMErrors : Raise(e, messages)
  /\ UNCHANGED << loop, views, config, n_steps, max_steps, step, state, input_messages, stop,
                  browser_closed >>

\* variant: the rate-limit branch does not sleep
HandleStepError_no_sleep ==
  /\ pc = "except"
  /\ StepFails(pending, messages)
  /\ UNCHANGED << loop, views, config, n_steps, max_steps, step, state, input_messages, stop,
                  browser_closed >>

\* the except clause of step(): _handle_step_error, which for a rate-limit
\* error first sleeps, then the rest of step()
HandleStepError ==
  /\ pc = "except"
  /\ IF pending.cls = "RateLimitError"
     THEN /\ pc' = "sleep"
          /\ UNCHANGED << messages, history, consecutive_failures, model_output, pending >>
     ELSE StepFails(pending, messages)
  /\ UNCHANGED << loop, views, config, n_steps, max_steps, step, state, input_messages, stop,
                  browser_closed >>

\* time.sleep(retry_delay) returns; the rest of _handle_step_error and step()
SleepReturns ==
  /\ pc = "sleep"
  /\ StepFails(pending, messages)
  /\ UNCHANGED << loop, views, config, n_steps, max_steps, step, state, input_messages, stop,
                  browser_closed >>

\* controller.act returns; the rest of the try block and of step()
ActReturns ==
  /\ pc = "act"
  /\ \E result \in ActResults :
       /\ consecutive_failures' = failures_after_success(consecutive_failures)
       /\ messages' = _update_messages_with_result(messages, result)
       /\ history' = _make_history_item(history, model_output, state, result)
  /\ pc' = "step_done"
  /\ UNCHANGED << loop, views, config, n_steps, max_steps, step, state, input_messages, model_output,
                  pending, stop, browser_closed >>

\* variant: when the action raises, the decision is not in the conversation
ActRaises_forgets_decision ==
  /\ pc = "act"
  /\ \E e \in ActErrors : Raise(e, SubSeq(messages, 1, Len(messages) - 1))
  /\ UNCHANGED << loop, views, config, n_steps, max_steps, step, state, input_messages, stop,
                  browser_closed >>

\* controller.act raises
ActRaises ==
  /\ pc = "act"
  /\ \E e \in ActErrors : Raise(e, messages)
  /\ UNCHANGED << loop, views, config, n_steps, max_steps, step, state, input_messages, stop,
                  browser_closed >>

\* if self._is_task_complete(): break
TaskCompleteBreak ==
  /\ pc = "step_done"
  /\ _is_task_complete
  /\ stop' = "Completed"
  /\ pc' = "finally"
  /\ UNCHANGED << loop, views, config, messages, history, n_steps, consecutive_failures, max_steps,
                  step, state, input_messages, model_output, pending, browser_closed >>

\* the loop continues with the next iteration
NextIteration ==
  /\ pc = "step_done"
  /\ ~_is_task_complete
  /\ pc' = "for"
  /\ UNCHANGED << loop, views, config, messages, history, n_steps, consecutive_failures, max_steps,
                  step, state, input_messages, model_output, pending, stop, browser_closed >>

\* variant: the finally clause closes the browser whoever made the controller
Finally_closes_always ==
  /\ pc = "finally"
  /\ browser_closed' = TRUE
  /\ pc' = "done"
  /\ UNCHANGED << loop, views, config, messages, history, n_steps, consecutive_failures, max_steps,
                  step, state, input_messages, model_output, pending, stop >>

\* the finally clause of run(): the browser is closed unless injected
Finally ==
  /\ pc = "finally"
  /\ browser_closed' = ~controller_injected
  /\ pc' = "done"
  /\ UNCHANGED << loop, views, config, messages, history, n_steps, consecutive_failures, max_steps,
                  step, state, input_messages, model_output, pending, stop >>

Next ==
  \/ Run
  \/ ForElse
  \/ TooManyFailuresBreak
  \/ StepBegin
  \/ GetState
  \/ GetStateRaises
  \/ CutInputMessages
  \/ LLMReturns
  \/ LLMRaises
  \/ HandleStepError
  \/ SleepReturns
  \/ ActReturns
  \/ ActRaises
  \/ TaskCompleteBreak
  \/ NextIteration
  \/ Finally

Spec == Init /\ [][Next]_vars

\* ------------------------------------------- agents on one event loop
(***************************************************************************)
(* Several agents run their run() coroutines as tasks of one asyncio event *)
(* loop.  The loop has one thread: a coroutine keeps it until it suspends  *)
(* at an await that really waits or until its task ends.  Of the calls in  *)
(* step(), only structured_llm.ainvoke is awaited; get_state, act and      *)
(* time.sleep are plain calls that keep the thread.  Every agent is given  *)
(* the same max_failures and max_steps; messages and history are counted.  *)
(***************************************************************************)
Agents == 1..NumAgents

\* the state of an agent after construction, before its task has started
NewAgent == [run |-> "idle", steps |-> << >>, consecutive_failures |-> 0,
             history |-> 0, messages |-> 2, is_done |-> FALSE]

InitLoop ==
  /\ max_failures \in 1..MaxFailuresBound
  /\ max_input_tokens = 64
  /\ save_conversation_path = FALSE
  /\ controller_injected = TRUE
  /\ \E sp \in SystemPrompts, task \in Tasks :
       messages = << SystemMessage(sp), HumanMessage("Your task is: " \o task) >>
  /\ history = <<>>
  /\ n_steps = 1
  /\ consecutive_failures = 0
  /\ pc = "idle"
  /\ max_steps \in 1..MaxStepsBound
  /\ step = 0
  /\ state = Null
  /\ input_messages = <<>>
  /\ model_output = Null
  /\ pending = Null
  /\ stop = "none"
  /\ browser_closed = FALSE
  /\ thread = 0
  /\ agents = [a \in Agents |-> NewAgent]
  /\ dom = << >>
  /\ call = NoCall
  /\ hash_calls = << >>
  /\ recorder = NewRecorder

\* the step coroutines of agent a that are at position p
StepsAt(a, p) == { i \in 1..Len(agents[a].steps) : agents[a].steps[i] = p }

\* the end of step(): the awaiting run() coroutine goes on in the same task
StepEnds(a, i, failures, done) ==
  agents' = [agents EXCEPT ![a] =
               [run |-> IF @.run = "await" THEN "for" ELSE @.run,
                steps |-> [@.steps EXCEPT ![i] = "finished"],
                consecutive_failures |-> failures,
                history |-> @.history + 1,
                messages |-> @.messages + 1,
                is_done |-> done]]

\* the event loop starts the task of agent a: run() executes up to the loop
LoopRun(a) ==
  /\ thread = 0
  /\ agents[a].run = "idle"
  /\ thread' = a
  /\ agents' = [agents EXCEPT ![a].run = "for"]
  /\ UNCHANGED << single, views >>

\* variant: the step is started as a task of its own and not awaited
LoopStepBegin_not_awaited(a) ==
  /\ thread = a
  /\ agents[a].run = "for"
  /\ Len(agents[a].steps) < max_steps
  /\ agents[a].consecutive_failures < max_failures
  /\ ~agents[a].is_done
  /\ agents' = [agents EXCEPT ![a].steps = Append(@, "get_state")]
  /\ UNCHANGED << thread, single, views >>

\* await self.step(): run() waits for the step it has started
LoopStepBegin(a) ==
  /\ thread = a
  /\ agents[a].run = "for"
  /\ Len(agents[a].steps) < max_steps
  /\ agents[a].consecutive_failures < max_failures
  /\ ~agents[a].is_done
  /\ agents' = [agents EXCEPT ![a].steps = Append(@, "get_state"), ![a].run = "await"]
  /\ UNCHANGED << thread, single, views >>

\* run() returns: the task of agent a ends and the thread is free
LoopReturn(a) ==
  /\ thread = a
  /\ agents[a].run = "for"
  /\ \/ Len(agents[a].steps) >= max_steps
     \/ agents[a].consecutive_failures >= max_failures
     \/ agents[a].is_done
  /\ agents' = [agents EXCEPT ![a].run = "done"]
  /\ thread' = 0
  /\ UNCHANGED << single, views >>

\* get_state returns, get_next_action stores the cut messages and awaits the
\* LLM: the coroutine is suspended and the thread is free
LoopGetState(a) ==
  /\ thread = a
  /\ \E i \in StepsAt(a, "get_state") :
       agents' = [agents EXCEPT ![a].steps[i] = "ainvoke"]
  /\ thread' = 0
  /\ UNCHANGED << single, views >>

\* get_state raises: the exception ends step(), run() and the task
LoopGetStateRaises(a) ==
  /\ thread = a
  /\ \E i \in StepsAt(a, "get_state") :
       agents' = [agents EXCEPT ![a].steps[i] = "raised", ![a].run = "done"]
  /\ thread' = 0
  /\ UNCHANGED << single, views >>

\* the LLM response has arrived and the event loop resumes the coroutine:
\* the AI message is stored and controller.act is called
LoopLLMReturns(a) ==
  /\ thread = 0
  /\ \E i \in StepsAt(a, "ainvoke") :
       agents' = [agents EXCEPT ![a].steps[i] = "act", ![a].messages = @ + 1]
  /\ thread' = a
  /\ UNCHANGED << single, views >>

\* the LLM call has failed and the event loop resumes the coroutine in the
\* except clause: a rate-limit error calls time.sleep, which keeps the thread
LoopLLMRaises(a) ==
  /\ thread = 0
  /\ \E i \in StepsAt(a, "ainvoke"), e \in LLMErrors :
       IF e.cls = "RateLimitError"
       THEN agents' = [agents EXCEPT ![a].steps[i] = "sleep"]
       ELSE StepEnds(a, i, failures_after_error(agents[a].consecutive_failures, e), FALSE)
  /\ thread' = a
  /\ UNCHANGED << single, views >>

\* time.sleep returns; the rest of the except clause and of step()
LoopSleepReturns(a) ==
  /\ thread = a
  /\ \E i \in StepsAt(a, "sleep") :
       StepEnds(a, i, agents[a].consecutive_failures + 1, FALSE)
  /\ UNCHANGED << thread, single, views >>

\* controller.act returns; the rest of step()
LoopActReturns(a) ==
  /\ thread = a
  /\ \E i \in StepsAt(a, "act"), result \in ActResults :
       StepEnds(a, i, failures_after_success(agents[a].consecutive_failures), result.is_done)
  /\ UNCHANGED << thread, single, views >>

\* controller.act raises; the except clause and the rest of step()
LoopActRaises(a) ==
  /\ thread = a
  /\ \E i \in StepsAt(a, "act"), e \in ActErrors :
       StepEnds(a, i, failures_after_error(agents[a].consecutive_failures, e), FALSE)
  /\ UNCHANGED << thread, single, views >>

\* what agent a can do
AgentNext(a) ==
  \/ LoopRun(a)
  \/ LoopStepBegin(a)
  \/ LoopReturn(a)
  \/ LoopGetState(a)
  \/ LoopGetStateRaises(a)
  \/ LoopLLMReturns(a)
  \/ LoopLLMRaises(a)
  \/ LoopSleepReturns(a)
  \/ LoopActReturns(a)
  \/ LoopActRaises(a)

NextLoop == \E a \in Agents : AgentNext(a)

SpecLoop == InitLoop /\ [][NextLoop]_vars

\* -------------------------------------------------------- DOM node model
(***************************************************************************)
(* browser_use.dom.views: the element/text node tree of one snapshot and   *)
(* its traversal methods.  A node is named by its identity; dom maps the   *)
(* identities of a snapshot to the nodes' fields.  Children are held in    *)
(* order by the parent, parent is the back-reference.                      *)
(***************************************************************************)
\* the largest number of nodes of a snapshot
MaxNodes == 4
\* the number of element node instances whose hash is read
NumInstances == 2

\* the element nodes a snapshot is built from: a plain container, an
\* element registered as an actionable target, a file input
ElementLabels ==
  { [kind |-> "element", tag_name |-> "div", attributes |-> << >>,
     highlighted |-> FALSE, text |-> Null],
    [kind |-> "element", tag_name |-> "button", attributes |-> << << "class", "btn" >> >>,
     highlighted |-> TRUE, text |-> Null],
    [kind |-> "element", tag_name |-> "input", attributes |-> << << "type", "file" >> >>,
     highlighted |-> FALSE, text |-> Null] }
\* the text nodes a snapshot is built from
TextLabels ==
  { [kind |-> "text", tag_name |-> Null, attributes |-> << >>, highlighted |-> FALSE, text |-> t] :
      t \in {"A", " b"} }
\* values of max_depth: unlimited, zero, and every finite depth up to more
\* than the height of any snapshot
DepthArgs == -1..MaxNodes
\* values of include_attributes
AttributeLists == { << >>, << "class" >> }
\* tag names assigned to a node after construction
TagNames == {"div", "span"}

\* the elements of a set of numbers in ascending order
RECURSIVE Ascending(_)
Ascending(S) ==
  IF S = {} THEN << >>
  ELSE LET least == CHOOSE x \in S : \A y \in S : x <= y
       IN << least >> \o Ascending(S \ {least})

\* the nodes below and including n in depth-first order, children in order;
\* ch gives the children of every node
RECURSIVE Preorder(_, _), PreorderAll(_, _)
Preorder(ch, n) == << n >> \o PreorderAll(ch, ch[n])
PreorderAll(ch, ns) ==
  IF ns = << >> THEN << >> ELSE Preorder(ch, Head(ns)) \o PreorderAll(ch, Tail(ns))

\* the position of x in the sequence s
IndexOf(s, x) == CHOOSE k \in 1..Len(s) : s[k] = x

\* the snapshot with n nodes where node i > 1 is a child of node p[i] and
\* node i is built from label l[i]; highlighted elements get zero-based
\* indices in depth-first order
Snapshot(n, p, l) ==
  LET ch == [i \in 1..n |-> Ascending({j \in 2..n : p[j] = i})]
      order == Preorder(ch, 1)
      index(i) == Cardinality({k \in 1..(IndexOf(order, i) - 1) : l[order[k]].highlighted})
  IN [i \in 1..n |->
        [kind |-> l[i].kind,
         parent |-> IF i = 1 THEN NoNode ELSE p[i],
         tag_name |-> l[i].tag_name,
         attributes |-> l[i].attributes,
         children |-> ch[i],
         highlight_index |-> IF l[i].highlighted THEN index(i) ELSE NoIndex,
         text |-> l[i].text,
         hash |-> Null]]

\* the parents of the nodes 2..n of a tree whose nodes are numbered so that a
\* parent comes before its children
Shapes(n) == { p \in [2..n -> 1..n] : \A i \in 2..n : p[i] < i }

\* the labellings that make a tree of shape p: the root is an element, text
\* nodes are leaves
Labellings(n, p) ==
  { l \in [1..n -> ElementLabels \cup TextLabels] :
      /\ l[1].kind = "element"
      /\ \A i \in 2..n : l[p[i]].kind = "element" }

\* the elements and the text nodes of the snapshot
Elements == { n \in DOMAIN dom : dom[n].kind = "element" }
Texts == { n \in DOMAIN dom : dom[n].kind = "text" }

\* python str.join
RECURSIVE join(_, _)
join(parts, sep) ==
  IF parts = << >> THEN ""
  ELSE IF Len(parts) = 1 THEN parts[1]
  ELSE parts[1] \o sep \o join(Tail(parts), sep)

Whitespace == {" ", "\n", "\t"}

\* python str.strip
RECURSIVE strip(_)
strip(s) ==
  IF s = "" THEN s
  ELSE IF SubSeq(s, 1, 1) \in Whitespace THEN strip(SubSeq(s, 2, Len(s)))
  ELSE IF SubSeq(s, Len(s), Len(s)) \in Whitespace THEN strip(SubSeq(s, 1, Len(s) - 1))
  ELSE s

\* variant: a highlighted descendant is recognised by the truth value of its
\* index, which is false for index 0
collect_text_truthy_index(self, node, current_depth, max_depth, below) ==
  IF max_depth # -1 /\ current_depth > max_depth THEN << >>
  ELSE IF dom[node].kind = "element" /\ node # self /\ dom[node].highlight_index > 0
  THEN << >>
  ELSE IF dom[node].kind = "text" THEN << dom[node].text >>
  ELSE below

\* variant: the depth limit is tested with >= instead of >
collect_text_depth_off_by_one(self, node, current_depth, max_depth, below) ==
  IF max_depth # -1 /\ current_depth >= max_depth THEN << >>
  ELSE IF dom[node].kind = "element" /\ node # self /\ dom[node].highlight_index # NoIndex
  THEN << >>
  ELSE IF dom[node].kind = "text" THEN << dom[node].text >>
  ELSE below

\* variant: the traversal detects that it is back at the start node and
\* stops there
collect_text_stops_at_self(self, node, current_depth, max_depth, below) ==
  IF max_depth # -1 /\ current_depth > max_depth THEN << >>
  ELSE IF node = self /\ current_depth > 0 THEN << >>
  ELSE IF dom[node].kind = "element" /\ node # self /\ dom[node].highlight_index # NoIndex
  THEN << >>
  ELSE IF dom[node].kind = "text" THEN << dom[node].text >>
  ELSE below

\* one visit of collect_text, the helper of
\* get_all_text_till_next_clickable_element: below is what the visits of the
\* node's children collect
collect_text(self, node, current_depth, max_depth, below) ==
  IF max_depth # -1 /\ current_depth > max_depth THEN << >>
  ELSE IF dom[node].kind = "element" /\ node # self /\ dom[node].highlight_index # NoIndex
  THEN << >>
  ELSE IF dom[node].kind = "text" THEN << dom[node].text >>
  ELSE below

\* the recursion of collect_text over a node and over its children
RECURSIVE collect_text_from(_, _, _, _), collect_text_children(_, _, _, _)
collect_text_from(self, node, current_depth, max_depth) ==
  collect_text(self, node, current_depth, max_depth,
               collect_text_children(self, dom[node].children, current_depth + 1, max_depth))
collect_text_children(self, nodes, current_depth, max_depth) ==
  IF nodes = << >> THEN << >>
  ELSE collect_text_from(self, Head(nodes), current_depth, max_depth)
         \o collect_text_children(self, Tail(nodes), current_depth, max_depth)

\* DOMElementNode.get_all_text_till_next_clickable_element
get_all_text_till_next_clickable_element(self, max_depth) ==
  strip(join(collect_text_from(self, self, 0, max_depth), "\n"))

\* DOMTextNode.has_parent_with_highlight_index: the walk up the parent chain
RECURSIVE highlighted_from(_)
highlighted_from(current) ==
  IF current = NoNode THEN FALSE
  ELSE IF dom[current].highlight_index # NoIndex THEN TRUE
  ELSE highlighted_from(dom[current].parent)

has_parent_with_highlight_index(self) == highlighted_from(dom[self].parent)

\* the attributes of a node that are in the allow-list, as key="value"
RECURSIVE attribute_parts(_, _)
attribute_parts(attributes, include_attributes) ==
  IF attributes = << >> THEN << >>
  ELSE LET key == Head(attributes)[1]
           value == Head(attributes)[2]
           rest == attribute_parts(Tail(attributes), include_attributes)
       IN IF \E k \in 1..Len(include_attributes) : include_attributes[k] = key
          THEN << key \o "=\"" \o value \o "\"" >> \o rest
          ELSE rest

\* the line of a highlighted element
element_line(node, include_attributes) ==
  LET attributes_str == IF include_attributes = << >> THEN ""
                        ELSE " " \o join(attribute_parts(dom[node].attributes,
                                                         include_attributes), " ")
  IN "[" \o ToString(dom[node].highlight_index) \o "]<" \o dom[node].tag_name
       \o attributes_str \o ">" \o get_all_text_till_next_clickable_element(node, -1)
       \o "</" \o dom[node].tag_name \o ">"

\* variant: a text node is tested against its parent only, not the chain
process_node_parent_only(node, include_attributes, below) ==
  IF dom[node].kind = "element"
  THEN (IF dom[node].highlight_index # NoIndex
        THEN << element_line(node, include_attributes) >>
        ELSE << >>) \o below
  ELSE IF dom[dom[node].parent].highlight_index = NoIndex
       THEN << "[]" \o dom[node].text >>
       ELSE << >>

\* one visit of process_node, the helper of clickable_elements_to_string:
\* below is what the visits of the node's children append
process_node(node, include_attributes, below) ==
  IF dom[node].kind = "element"
  THEN (IF dom[node].highlight_index # NoIndex
        THEN << element_line(node, include_attributes) >>
        ELSE << >>) \o below
  ELSE IF ~has_parent_with_highlight_index(node)
       THEN << "[]" \o dom[node].text >>
       ELSE << >>

\* the recursion of process_node over a node and over its children
RECURSIVE process_node_from(_, _), process_node_children(_, _)
process_node_from(node, include_attributes) ==
  process_node(node, include_attributes,
               process_node_children(dom[node].children, include_attributes))
process_node_children(nodes, include_attributes) ==
  IF nodes = << >> THEN << >>
  ELSE process_node_from(Head(nodes), include_attributes)
         \o process_node_children(Tail(nodes), include_attributes)

\* DOMElementNode.clickable_elements_to_string
clickable_elements_to_string(self, include_attributes) ==
  join(process_node_from(self, include_attributes), "\n")

\* the attribute lookup attributes.get(key)
attribute(node, key) ==
  IF \E k \in 1..Len(dom[node].attributes) : dom[node].attributes[k][1] = key
  THEN dom[node].attributes[CHOOSE k \in 1..Len(dom[node].attributes) :
                              dom[node].attributes[k][1] = key][2]
  ELSE Null

\* the test of get_file_upload_element for an input of type file
is_file_input(node) ==
  dom[node].tag_name = "input" /\ attribute(node, "type") = "file"

\* variant: the siblings are searched whatever check_siblings says
searches_siblings_always(self, check_siblings) == dom[self].parent # NoNode

\* the test of get_file_upload_element that admits the sibling search
searches_siblings(self, check_siblings) == check_siblings /\ dom[self].parent # NoNode

\* get_file_upload_element(check_siblings=False) on a node, and the first
\* result that is not None over a list of nodes
RECURSIVE file_upload_below(_), first_file_upload(_)
file_upload_below(node) ==
  IF is_file_input(node) THEN node
  ELSE first_file_upload(dom[node].children)
first_file_upload(nodes) ==
  IF nodes = << >> THEN NoNode
  ELSE LET result == IF dom[Head(nodes)].kind = "element"
                     THEN file_upload_below(Head(nodes))
                     ELSE NoNode
       IN IF result # NoNode THEN result ELSE first_file_upload(Tail(nodes))

\* variant: the node itself is not tested first
get_file_upload_element_skips_self(self, check_siblings) ==
  LET result == first_file_upload(dom[self].children)
  IN IF result # NoNode THEN result
     ELSE IF searches_siblings(self, check_siblings)
     THEN first_file_upload(SelectSeq(dom[dom[self].parent].children,
                                      LAMBDA sibling : sibling # self))
     ELSE NoNode

\* DOMElementNode.get_file_upload_element
get_file_upload_element(self, check_siblings) ==
  IF is_file_input(self) THEN self
  ELSE LET result == first_file_upload(dom[self].children)
       IN IF result # NoNode THEN result
          ELSE IF searches_siblings(self, check_siblings)
          THEN first_file_upload(SelectSeq(dom[dom[self].parent].children,
                                           LAMBDA sibling : sibling # self))
          ELSE NoNode

\* HistoryTreeProcessor._hash_dom_element: a function of the node's fields
_hash_dom_element(node) == "hash_" \o dom[node].tag_name

\* the single-agent and event-loop variables are not in use
AgentUnused ==
  /\ max_failures = 0
  /\ max_input_tokens = 64
  /\ save_conversation_path = FALSE
  /\ controller_injected = TRUE
  /\ messages = << >>
  /\ history = << >>
  /\ n_steps = 1
  /\ consecutive_failures = 0
  /\ pc = "idle"
  /\ max_steps = 0
  /\ step = 0
  /\ state = Null
  /\ input_messages = << >>
  /\ model_output = Null
  /\ pending = Null
  /\ stop = "none"
  /\ browser_closed = FALSE
  /\ thread = 0
  /\ agents = << >>

\* a snapshot has been extracted
InitViews ==
  /\ AgentUnused
  /\ \E n \in 1..MaxNodes : \E p \in Shapes(n) : \E l \in Labellings(n, p) :
       dom = Snapshot(n, p, l)
  /\ call = NoCall
  /\ hash_calls = [n \in DOMAIN dom |-> 0]
  /\ recorder = NewRecorder

\* node.get_all_text_till_next_clickable_element(max_depth) is called
GetAllText(self, max_depth) ==
  /\ call = NoCall
  /\ call' = [method |-> "get_all_text_till_next_clickable_element", self |-> self,
              arg |-> max_depth,
              result |-> get_all_text_till_next_clickable_element(self, max_depth)]
  /\ UNCHANGED << single, loop, recorder, dom, hash_calls >>

\* node.clickable_elements_to_string(include_attributes) is called
ClickableElementsToString(self, include_attributes) ==
  /\ call = NoCall
  /\ call' = [method |-> "clickable_elements_to_string", self |-> self,
              arg |-> include_attributes,
              result |-> clickable_elements_to_string(self, include_attributes)]
  /\ UNCHANGED << single, loop, recorder, dom, hash_calls >>

\* node.get_file_upload_element(check_siblings) is called
GetFileUploadElement(self, check_siblings) ==
  /\ call = NoCall
  /\ call' = [method |-> "get_file_upload_element", self |-> self,
              arg |-> check_siblings,
              result |-> get_file_upload_element(self, check_siblings)]
  /\ UNCHANGED << single, loop, recorder, dom, hash_calls >>

\* a snapshot takes one call: the methods are functions of the snapshot and
\* leave it as it is, a second call sees what the first one saw
NextViews ==
  \E self \in Elements :
    \/ \E max_depth \in DepthArgs : GetAllText(self, max_depth)
    \/ \E include_attributes \in AttributeLists :
         ClickableElementsToString(self, include_attributes)
    \/ \E check_siblings \in BOOLEAN : GetFileUploadElement(self, check_siblings)

SpecViews == InitViews /\ [][NextViews]_vars

\* element nodes have been constructed, their hash was never read
InitHash ==
  /\ AgentUnused
  /\ \E l \in [1..NumInstances -> { e \in ElementLabels : e.tag_name \in TagNames }] :
       dom = Snapshot(NumInstances, [i \in 2..NumInstances |-> 1], l)
  /\ call = NoCall
  /\ hash_calls = [n \in DOMAIN dom |-> 0]
  /\ recorder = NewRecorder

\* variant: the property is an ordinary one, computed at every read
ReadHash_not_cached(self) ==
  /\ hash_calls' = [hash_calls EXCEPT ![self] = @ + 1]
  /\ dom' = [dom EXCEPT ![self].hash = _hash_dom_element(self)]
  /\ call' = [method |-> "hash", self |-> self, arg |-> NoNode,
              result |-> _hash_dom_element(self)]
  /\ UNCHANGED << single, loop, recorder >>

\* node.hash is read: a cached property, computed at the first read
ReadHash(self) ==
  /\ IF dom[self].hash = Null
     THEN /\ hash_calls' = [hash_calls EXCEPT ![self] = @ + 1]
          /\ dom' = [dom EXCEPT ![self].hash = _hash_dom_element(self)]
     ELSE UNCHANGED << dom, hash_calls >>
  /\ call' = [method |-> "hash", self |-> self, arg |-> NoNode, result |-> dom'[self].hash]
  /\ UNCHANGED << single, loop, recorder >>

\* node.tag_name = tag_name: a field is assigned after construction
SetTagName(self, tag_name) ==
  /\ dom' = [dom EXCEPT ![self].tag_name = tag_name]
  /\ call' = [method |-> "tag_name", self |-> self, arg |-> tag_name, result |-> NoNode]
  /\ UNCHANGED << single, loop, recorder, hash_calls >>

NextHash ==
  \E self \in Elements :
    \/ ReadHash(self)
    \/ \E tag_name \in TagNames : SetTagName(self, tag_name)

SpecHash == InitHash /\ [][NextHash]_vars

\* ---------------------------------------------------- observation prompt
(***************************************************************************)
(* browser_use.agent.prompts.AgentMessagePrompt.get_user_message: the part *)
(* of the observation that reports the results of the previous actions.    *)
(***************************************************************************)
\* the largest max_error_length the prompt is built with
MaxErrorLength == 3
\* the largest number of action results reported in one observation
MaxResults == 2

\* the description of the browser state that precedes the results
StateDescriptions == {"Current url: http://test.com\nInteractive elements:\n[0]<a/>"}
\* the action results reported: extracted_content and error are each absent,
\* empty or a text; errors shorter and longer than max_error_length
PromptResults ==
  { [extracted_content |-> c, error |-> e, include_in_memory |-> FALSE, is_done |-> FALSE] :
      c \in {Null, "", "done it"}, e \in {Null, "", "ab", "abcdefg"} }
\* values of max_error_length
ErrorLengths == 1..MaxErrorLength

\* the lists of at most n action results
RECURSIVE ResultLists(_)
ResultLists(n) ==
  IF n = 0 THEN { << >> }
  ELSE ResultLists(n - 1)
         \cup { Append(rs, r) : rs \in { l \in ResultLists(n - 1) : Len(l) = n - 1 },
                                r \in PromptResults }

\* variant: the head of the error is kept
first_characters(error, max_error_length) ==
  SubSeq(error, 1, IF max_error_length < Len(error) THEN max_error_length ELSE Len(error))

\* the last max_error_length characters of the error
last_characters(error, max_error_length) ==
  SubSeq(error, (IF max_error_length < Len(error) THEN Len(error) - max_error_length ELSE 0) + 1,
         Len(error))

\* what get_user_message appends for result number i of the list
result_description(result, i, max_error_length) ==
  LET of == ToString(i) \o "/" \o ToString(Len(result))
  IN (IF Truthy(result[i].extracted_content)
      THEN "\nAction result " \o of \o ": " \o result[i].extracted_content
      ELSE "")
     \o (IF Truthy(result[i].error)
         THEN "\nAction error " \o of \o ": ..."
                \o last_characters(result[i].error, max_error_length)
         ELSE "")

\* the results of the list from number i on
RECURSIVE results_description(_, _, _)
results_description(result, i, max_error_length) ==
  IF i > Len(result) THEN ""
  ELSE result_description(result, i, max_error_length)
         \o results_description(result, i + 1, max_error_length)

\* AgentMessagePrompt.get_user_message without a screenshot: the content of
\* the Human message
get_user_message(state_description, result, max_error_length) ==
  state_description \o results_description(result, 1, max_error_length)

\* no prompt has been built
InitPrompt ==
  /\ AgentUnused
  /\ dom = << >>
  /\ call = NoCall
  /\ hash_calls = << >>
  /\ recorder = NewRecorder

\* AgentMessagePrompt(state, result, max_error_length).get_user_message():
\* one prompt is built and rendered
GetUserMessage(state_description, result, max_error_length) ==
  /\ call = NoCall
  /\ call' = [method |-> "get_user_message", self |-> result, arg |-> max_error_length,
              result |-> get_user_message(state_description, result, max_error_length)]
  /\ UNCHANGED << single, loop, recorder, dom, hash_calls >>

NextPrompt ==
  \E state_description \in StateDescriptions, result \in ResultLists(MaxResults),
     max_error_length \in ErrorLengths :
    GetUserMessage(state_description, result, max_error_length)

SpecPrompt == InitPrompt /\ [][NextPrompt]_vars

\* ---------------------------------------------------------------- claims
\* ------------------------------------------------ a snapshot with a cycle
\* the nodes a graph with a cycle is built from: a plain container, an
\* element registered as an actionable target, a text node; node i, when a
\* text node, has a text of its own
CycleLabels(i) ==
  { [kind |-> "element", tag_name |-> "div", attributes |-> << >>,
     highlighted |-> FALSE, text |-> Null],
    [kind |-> "element", tag_name |-> "button", attributes |-> << >>,
     highlighted |-> TRUE, text |-> Null],
    [kind |-> "text", tag_name |-> Null, attributes |-> << >>,
     highlighted |-> FALSE, text |-> "text_" \o ToString(i)] }
\* finite values of max_depth, up to more than one turn of any cycle
BoundedDepths == 0..(MaxNodes + 2)

\* node i and its ancestors in the tree of shape p
RECURSIVE AncestorsOrSelf(_, _)
AncestorsOrSelf(p, i) == IF i = 1 THEN {1} ELSE {i} \cup AncestorsOrSelf(p, p[i])

\* a tree was built and then an element or one of its ancestors was appended
\* to the element's children, which closes a cycle
InitCycle ==
  /\ AgentUnused
  /\ \E n \in 2..MaxNodes : \E p \in Shapes(n) :
       \E l \in { f \in [1..n -> UNION { CycleLabels(i) : i \in 1..n }] :
                    /\ \A i \in 1..n : f[i] \in CycleLabels(i)
                    /\ f[1].kind = "element"
                    /\ \A i \in 2..n : f[p[i]].kind = "element" } :
         \E b \in 1..n : \E a \in AncestorsOrSelf(p, b) :
           /\ l[b].kind = "element"
           /\ dom = [Snapshot(n, p, l) EXCEPT ![b].children = Append(@, a)]
  /\ call = NoCall
  /\ hash_calls = [n \in DOMAIN dom |-> 0]
  /\ recorder = NewRecorder

\* get_all_text_till_next_clickable_element is called with a finite max_depth
NextCycle ==
  \E self \in Elements, max_depth \in BoundedDepths : GetAllText(self, max_depth)

SpecCycle == InitCycle /\ [][NextCycle]_vars

\* --------------------------------------------- budget enforcement alone
\* the largest number of history messages between task and observation
MaxHistory == 4
\* the largest token budget tried
MaxBudget == 48

\* every token budget from none to the largest
BudgetRange == 0..MaxBudget

\* messages the steps of an agent leave in the stored conversation: the
\* decision, the content of a result, the error of a result
HistoryMessages ==
  { AIMessage("click(1)"), HumanMessage("page text"), HumanMessage("no such element") }

\* the sequences of at most n history messages
RECURSIVE HistoriesUpTo(_)
HistoriesUpTo(n) ==
  IF n = 0 THEN { << >> }
  ELSE HistoriesUpTo(n - 1)
         \cup { Append(h, m) : h \in { l \in HistoriesUpTo(n - 1) : Len(l) = n - 1 },
                               m \in HistoryMessages }

\* a stored history after any number of steps and evictions: every decision
\* is followed by the Human message of its result or error
Histories ==
  { h \in HistoriesUpTo(MaxHistory) :
      \A i \in 1..Len(h) : h[i].type = "ai" => (i < Len(h) /\ h[i + 1].type = "human") }

\* the candidate lists [system, task, ...history..., new_observation]
Candidates ==
  { << SystemMessage(sp), HumanMessage("Your task is: " \o task) >> \o h \o << HumanMessage(obs) >> :
      sp \in SystemPrompts, task \in Tasks, h \in Histories, obs \in Observations }

\* budget enforcement has not been called
InitBudget ==
  /\ AgentUnused
  /\ dom = << >>
  /\ call = NoCall
  /\ hash_calls = << >>
  /\ recorder = NewRecorder

\* _cut_input_messages is called with a copy of the candidate list under
\* the budget max_input_tokens
CutInputMessagesCall(candidate, budget) ==
  /\ call' = [method |-> "_cut_input_messages", self |-> candidate, arg |-> budget,
              result |-> _cut_input_messages(candidate, budget)]
  /\ UNCHANGED << single, loop, recorder, dom, hash_calls >>

\* the first call fixes the candidate list, the calls after it vary the budget
NextBudget ==
  \E candidate \in IF call = NoCall THEN Candidates ELSE { call.self } :
    \E budget \in BudgetRange : CutInputMessagesCall(candidate, budget)

SpecBudget == InitBudget /\ [][NextBudget]_vars

\* ------------------------------------------------- the memory filter alone
\* the largest number of stored messages after system and task
MaxStored == 4

\* a Human message that is not to be kept in memory
OneShotMessage(text) == [type |-> "human", content |-> text, include_in_memory |-> FALSE]

\* messages found in a stored conversation: a decision, a remembered Human
\* message, a Human message whose include_in_memory is false
StoredMessages ==
  { AIMessage("click(1)"), HumanMessage("page text"), OneShotMessage("use the search box") }

\* the sequences of at most n stored messages
RECURSIVE StoredUpTo(_)
StoredUpTo(n) ==
  IF n = 0 THEN { << >> }
  ELSE StoredUpTo(n - 1)
         \cup { Append(h, m) : h \in { l \in StoredUpTo(n - 1) : Len(l) = n - 1 },
                               m \in StoredMessages }

\* the stored conversations: system and task, then stored messages
Conversations ==
  { << SystemMessage(sp), HumanMessage("Your task is: " \o task) >> \o h :
      sp \in SystemPrompts, task \in Tasks, h \in StoredUpTo(MaxStored) }

\* the results fed back: those of the Controller and those of failed steps
FedResults == ActResults \cup { error_result(e) : e \in LLMErrors \cup ActErrors }

\* no result has been fed back
InitMemory ==
  /\ AgentUnused
  /\ dom = << >>
  /\ call = NoCall
  /\ hash_calls = << >>
  /\ recorder = NewRecorder

\* _update_messages_with_result(result) is called on a stored conversation
UpdateMessagesWithResult(stored, result) ==
  /\ call = NoCall
  /\ call' = [method |-> "_update_messages_with_result", self |-> stored, arg |-> result,
              result |-> _update_messages_with_result(stored, result)]
  /\ UNCHANGED << single, loop, recorder, dom, hash_calls >>

NextMemory ==
  \E stored \in Conversations, result \in FedResults : UpdateMessagesWithResult(stored, result)

SpecMemory == InitMemory /\ [][NextMemory]_vars

\* ------------------------------------------- the interaction recorder
(***************************************************************************)
(* InteractionRecorderWatchdog: the handlers of mouse and key events are   *)
(* coroutines.  A handler runs from its start to its await of              *)
(* get_browser_state_summary without interruption; while it waits,         *)
(* start_recording, stop_recording and other handlers can run.             *)
(***************************************************************************)
\* the largest number of input events handled
MaxEvents == 3

\* python None where a state summary, an element or a rectangle is expected
NoState == [none |-> TRUE]
NoElement == [none |-> TRUE]
NoRect == [none |-> TRUE]

\* mouse events: a press on the button, a press on no element, a move
MouseEvents ==
  { [type |-> "mousePressed", x |-> 5, y |-> 5],
    [type |-> "mousePressed", x |-> 50, y |-> 50],
    [type |-> "mouseMoved", x |-> 5, y |-> 5] }
\* key events: a character typed, a key going down
KeyEvents == { [type |-> "char", text |-> "a"], [type |-> "keyDown", text |-> "a"] }

\* the elements of a selector map: a button with a rectangle, a focused input
\* without one
ButtonElement ==
  [element_index |-> 1, bounding_box_rect |-> [x |-> 0, y |-> 0, width |-> 10, height |-> 10],
   focused |-> FALSE]
InputElement == [element_index |-> 2, bounding_box_rect |-> NoRect, focused |-> TRUE]
\* what get_browser_state_summary can return
DomStates ==
  { NoState,
    [selector_map |-> << >>],
    [selector_map |-> << ButtonElement >>],
    [selector_map |-> << ButtonElement, InputElement >>] }

\* the element at the least of the matching positions of the sequence, or
\* none: what a loop over the elements returns at its first match
FirstElement(elements, matching) ==
  IF matching = {} THEN NoElement
  ELSE elements[CHOOSE k \in matching : \A j \in matching : k <= j]

\* _find_element_at
_find_element_at(dom_state, x, y) ==
  IF dom_state = NoState \/ dom_state.selector_map = << >> THEN NoElement
  ELSE LET inside(element) ==
             /\ element.bounding_box_rect # NoRect
             /\ LET x1 == element.bounding_box_rect.x
                    y1 == element.bounding_box_rect.y
                    x2 == element.bounding_box_rect.x + element.bounding_box_rect.width
                    y2 == element.bounding_box_rect.y + element.bounding_box_rect.height
                IN x1 <= x /\ x <= x2 /\ y1 <= y /\ y <= y2
       IN FirstElement(dom_state.selector_map,
                       { k \in 1..Len(dom_state.selector_map) :
                           inside(dom_state.selector_map[k]) })

\* _find_active_element
_find_active_element(dom_state) ==
  IF dom_state = NoState \/ dom_state.selector_map = << >> THEN NoElement
  ELSE FirstElement(dom_state.selector_map,
                    { k \in 1..Len(dom_state.selector_map) :
                        dom_state.selector_map[k].focused })

\* RecordableEvent(action, params, element) dispatched by handler number by
RecordableEvent(action, params, element, by) ==
  [action |-> action, params |-> params, element |-> element, by |-> by]

\* a handler coroutine that was started for the event: recording_at_start
\* is the value of _is_recording it found, queried tells whether it has
\* asked for the browser state, pc is where it stands
Handler(name, event, recording_at_start, queried, position) ==
  [handler |-> name, event |-> event, recording_at_start |-> recording_at_start,
   queried |-> queried, pc |-> position]

\* start_recording()
StartRecording ==
  /\ recorder' = [recorder EXCEPT !._is_recording = TRUE]
  /\ UNCHANGED << single, loop, dom, call, hash_calls >>

\* stop_recording()
StopRecording ==
  /\ recorder' = [recorder EXCEPT !._is_recording = FALSE]
  /\ UNCHANGED << single, loop, dom, call, hash_calls >>

\* variant: the mouse handler does not test _is_recording
on_DispatchMouseEvent_unguarded(event) ==
  /\ Len(recorder.handlers) < MaxEvents
  /\ recorder' =
       [recorder EXCEPT !.handlers =
          Append(@, IF event.type = "mousePressed"
                    THEN Handler("on_DispatchMouseEvent", event, recorder._is_recording,
                                 TRUE, "await")
                    ELSE Handler("on_DispatchMouseEvent", event, recorder._is_recording,
                                 FALSE, "returned"))]
  /\ UNCHANGED << single, loop, dom, call, hash_calls >>

\* on_DispatchMouseEvent is started for an event and runs until it returns
\* or awaits get_browser_state_summary
on_DispatchMouseEvent(event) ==
  /\ Len(recorder.handlers) < MaxEvents
  /\ recorder' =
       [recorder EXCEPT !.handlers =
          Append(@, IF ~recorder._is_recording
                    THEN Handler("on_DispatchMouseEvent", event, FALSE, FALSE, "returned")
                    ELSE IF event.type = "mousePressed"
                    THEN Handler("on_DispatchMouseEvent", event, TRUE, TRUE, "await")
                    ELSE Handler("on_DispatchMouseEvent", event, TRUE, FALSE, "returned"))]
  /\ UNCHANGED << single, loop, dom, call, hash_calls >>

\* on_DispatchKeyEvent is started for an event and runs until it returns or
\* awaits get_browser_state_summary
on_DispatchKeyEvent(event) ==
  /\ Len(recorder.handlers) < MaxEvents
  /\ recorder' =
       [recorder EXCEPT !.handlers =
          Append(@, IF ~recorder._is_recording
                    THEN Handler("on_DispatchKeyEvent", event, FALSE, FALSE, "returned")
                    ELSE IF event.type = "char"
                    THEN Handler("on_DispatchKeyEvent", event, TRUE, TRUE, "await")
                    ELSE Handler("on_DispatchKeyEvent", event, TRUE, FALSE, "returned"))]
  /\ UNCHANGED << single, loop, dom, call, hash_calls >>

\* get_browser_state_summary returns to mouse handler h: the rest of
\* on_DispatchMouseEvent
MouseStateReturns(h, dom_state) ==
  /\ recorder.handlers[h].handler = "on_DispatchMouseEvent"
  /\ recorder.handlers[h].pc = "await"
  /\ LET event == recorder.handlers[h].event
         element == _find_element_at(dom_state, event.x, event.y)
     IN recorder' =
          [recorder EXCEPT
             !.handlers[h].pc = "returned",
             !.dispatched =
                IF element # NoElement
                THEN Append(@, RecordableEvent("click", [index |-> element.element_index],
                                               element, h))
                ELSE @]
  /\ UNCHANGED << single, loop, dom, call, hash_calls >>

\* get_browser_state_summary returns to key handler h: the rest of
\* on_DispatchKeyEvent
KeyStateReturns(h, dom_state) ==
  /\ recorder.handlers[h].handler = "on_DispatchKeyEvent"
  /\ recorder.handlers[h].pc = "await"
  /\ LET event == recorder.handlers[h].event
         active_element == _find_active_element(dom_state)
     IN recorder' =
          [recorder EXCEPT
             !.handlers[h].pc = "returned",
             !.dispatched =
                IF active_element # NoElement
                THEN Append(@, RecordableEvent("type",
                                               [index |-> active_element.element_index,
                                                text |-> event.text],
                                               active_element, h))
                ELSE @]
  /\ UNCHANGED << single, loop, dom, call, hash_calls >>

\* a watchdog was constructed
InitRecorder ==
  /\ AgentUnused
  /\ dom = << >>
  /\ call = NoCall
  /\ hash_calls = << >>
  /\ recorder = NewRecorder

NextRecorder ==
  \/ StartRecording
  \/ StopRecording
  \/ \E event \in MouseEvents : on_DispatchMouseEvent(event)
  \/ \E event \in KeyEvents : on_DispatchKeyEvent(event)
  \/ \E h \in 1..Len(recorder.handlers), dom_state \in DomStates : MouseStateReturns(h, dom_state)
  \/ \E h \in 1..Len(recorder.handlers), dom_state \in DomStates : KeyStateReturns(h, dom_state)

SpecRecorder == InitRecorder /\ [][NextRecorder]_vars

InStep == {"get_state", "get_next_action", "ainvoke", "act", "except", "sleep"}

\* an entry of a step that ended in the except branch of step()
IsFailure(entry) == entry.model_output = Null

AllStepsFailed == \A i \in 1..Len(history) : IsFailure(history[i])

NoStepDone == \A i \in 1..Len(history) : ~history[i].result.is_done

\* number of failed entries at the end of h
RECURSIVE TrailingFailures(_)
TrailingFailures(h) ==
  IF h = <<>> \/ ~IsFailure(h[Len(h)]) THEN 0
  ELSE 1 + TrailingFailures(SubSeq(h, 1, Len(h) - 1))

\* max_failures consecutive failed entries occur strictly before the last
\* iteration of the loop has been used up, or the ceiling is 0
CeilingReached ==
  \E k \in 0..(Len(history) - max_failures) :
    \A j \in (k + 1)..(k + max_failures) : IsFailure(history[j])

\* C1: while a step() of run() is in progress, consecutive_failures, which a
\* step changes only when it ends, is strictly below max_failures; a counter
\* at or above the ceiling at the top of the loop stops the run instead.
C1_StepBeginsBelowCeiling ==
  /\ pc \in InStep => consecutive_failures < max_failures
  /\ stop = "MaxFailures" => consecutive_failures >= max_failures

C1_Witness ==
  /\ pc = "get_state"
  /\ consecutive_failures > 0
  /\ consecutive_failures = max_failures - 1

\* C2: a finished run in which every step failed with a caught exception and
\* whose max_steps exceeds max_failures has executed exactly max_failures
\* steps, has a history of that length and ended in Aborted(MaxFailures).
C2_AllFailuresStopAtCeiling ==
  (pc = "done" /\ stop # "Raised" /\ AllStepsFailed /\ max_steps > max_failures)
    => (step = max_failures /\ Len(history) = max_failures /\ stop = "MaxFailures")

C2_Witness ==
  /\ pc = "done"
  /\ AllStepsFailed
  /\ max_failures = 2
  /\ max_steps > max_failures
  /\ Len(history) = 2
  /\ stop = "MaxFailures"

\* C3: a done result is only ever the last history entry, and no step is in
\* progress or about to begin once the last entry reports done.
C3_NoStepAfterDone ==
  /\ \A i \in 1..(Len(history) - 1) : ~history[i].result.is_done
  /\ pc \in InStep \cup {"for"} => ~(history # <<>> /\ history[Len(history)].result.is_done)
  /\ (pc \in {"finally", "done"} /\ history # <<>> /\ history[Len(history)].result.is_done)
       => stop = "Completed"

C3_Witness ==
  /\ pc = "done"
  /\ stop = "Completed"
  /\ step < max_steps
  /\ Len(history) >= 2

\* C4: run() executes at most max_steps steps, and a finished run in which no
\* step reported done and the failure ceiling was never reached has executed
\* exactly max_steps steps and ended in Aborted(MaxSteps).
C4_ExhaustsMaxSteps ==
  /\ step <= max_steps
  /\ (pc = "done" /\ NoStepDone /\ ~CeilingReached)
       => (step = max_steps /\ Len(history) = max_steps /\ stop = "MaxSteps")

\* C5: the history only grows by appending, and every step that runs to its
\* end, through the try block or through the except branch, appends exactly
\* one entry; nothing else appends.
C5_HistoryAppendOnly ==
  [][ /\ Len(history') >= Len(history)
      /\ SubSeq(history', 1, Len(history)) = history
      /\ (pc \in InStep /\ pc' = "step_done") => Len(history') = Len(history) + 1
      /\ ~(pc \in InStep /\ pc' = "step_done") => history' = history ]_vars

C5_Witness ==
  /\ Len(history) = 3
  /\ ~IsFailure(history[1])
  /\ IsFailure(history[2]) /\ history[2].result.error # Null
  /\ ~IsFailure(history[3])
  /\ consecutive_failures = 0

\* C6: a step in which the LLM call or the action execution raised (the step
\* went through the except clause) appends an
\* entry with a non-null error, include_in_memory true, is_done false and a
\* null model_output.
C6_FailedStepEntry ==
  [][ (pc \in {"except", "sleep"} /\ pc' = "step_done")
        => /\ Len(history') = Len(history) + 1
           /\ LET entry == history'[Len(history')]
              IN /\ entry.result.error # Null
                 /\ entry.result.include_in_memory
                 /\ ~entry.result.is_done
                 /\ entry.model_output = Null ]_vars

C6_Witness ==
  /\ pc = "step_done"
  /\ Len(history) = 2
  /\ history[2].result.error = "click failed"
  /\ history[2].model_output = Null
  /\ history[1].result.error = "rate limit"

\* C7: consecutive_failures equals the number of failed steps since the last
\* successful step (a successful step leaves it at 0).
C7_CounterIsTrailingFailures ==
  consecutive_failures = TrailingFailures(history)

C7_Witness ==
  /\ pc = "step_done"
  /\ Len(history) = 3
  /\ ~IsFailure(history[1])
  /\ IsFailure(history[2])
  /\ ~IsFailure(history[3])
  /\ history[2].result.error = "rate limit"
  /\ consecutive_failures = 0

\* C8: a BudgetOverflow is never folded into a failure entry of the history:
\* it leaves step() and ends the run.
C8_BudgetOverflowPropagates ==
  \A i \in 1..Len(history) : history[i].result.error # format_error(SystemTooLong)

\* C9: no LLM call is outstanding for a message list whose system and task
\* messages together exceed the token budget.
C9_NoCallWhenSystemAndTaskOverBudget ==
  pc = "ainvoke" =>
    get_message_tokens(input_messages[1]) + get_message_tokens(input_messages[2])
      <= max_input_tokens

\* C10: run() never ends by raising to its caller.
C10_RunNeverRaises ==
  stop # "Raised"

\* the last entry of the history
LastEntry == history[Len(history)]

\* the transition that ends a step through the except clause
StepEndsInExcept == pc \in {"except", "sleep"} /\ pc' = "step_done"

\* C11: every step that was begun, whatever error occurred in it, has its
\* history entry once the step is over: no error leaves step() unrecorded.
C11_EveryStepErrorRecorded ==
  pc \in {"for", "step_done", "finally", "done"} => Len(history) = step

\* C12: every exception that reaches the failure classification adds exactly
\* one to consecutive_failures, records one history entry, does not end the
\* run, and the loop goes on to its next iteration.
C12_HandledErrorsAreNonFatal ==
  [][ /\ StepEndsInExcept
        => /\ consecutive_failures' = consecutive_failures + 1
           /\ Len(history') = Len(history) + 1
           /\ history'[Len(history')].result.error = pending.msg
           /\ stop' = "none"
      /\ (pc = "except" /\ pc' # "except") => pc' \in {"sleep", "step_done"}
      /\ (pc = "step_done" /\ IsFailure(LastEntry)) => (pc' = "for" /\ stop' = "none") ]_vars

C12_Witness ==
  /\ pc = "get_state"
  /\ step = 2
  /\ consecutive_failures = 1
  /\ Len(history) = 1
  /\ history[1].result.error = ""

\* C13: the backoff sleep is entered only from the except clause for a
\* rate-limit error, with the counter untouched; it is followed directly by
\* the increment (one sleep per rate-limit error); any other class goes
\* from the except clause to the end of the step without sleeping.
C13_BackoffOnlyForRateLimit ==
  [][ /\ pc' = "sleep" => /\ pc = "except"
                          /\ pending.cls = "RateLimitError"
                          /\ consecutive_failures' = consecutive_failures
      /\ (pc = "except" /\ pending.cls = "RateLimitError") => pc' = "sleep"
      /\ (pc = "except" /\ pending.cls # "RateLimitError") => pc' = "step_done"
      /\ pc = "sleep" => /\ pc' = "step_done"
                         /\ consecutive_failures' = consecutive_failures + 1 ]_vars

C13_Witness ==
  /\ pc = "sleep"
  /\ pending.cls = "RateLimitError"
  /\ consecutive_failures = 1
  /\ Len(history) = 1

\* C15: the stored conversation always begins with the one System message
\* and the Human task message built at construction.
C15_SystemAndTaskPinned ==
  /\ Len(messages) >= 2
  /\ \E sp \in SystemPrompts : messages[1] = [type |-> "system", content |-> sp,
                                              include_in_memory |-> TRUE]
  /\ \E task \in Tasks : messages[2] = [type |-> "human",
                                        content |-> "Your task is: " \o task,
                                        include_in_memory |-> TRUE]
  /\ \A i \in 2..Len(messages) : messages[i].type # "system"

\* history was evicted in the second step and the observation was not cut
C15_Witness ==
  /\ pc = "ainvoke"
  /\ step = 2
  /\ Len(history) = 1
  /\ Len(messages) = 2
  /\ input_messages[3].content = state

\* C16: budget enforcement without truncation returns system and task, then
\* a suffix of the stored history in its order, then the new observation.
C16_EvictionKeepsSuffix ==
  [][ (pc = "get_next_action" /\ pc' = "ainvoke"
         /\ ~current_message_too_long(Append(messages, HumanMessage(state)), max_input_tokens))
        => \E k \in 0..(Len(messages) - 2) :
             input_messages' = << messages[1], messages[2] >>
                                 \o SubSeq(messages, 3 + k, Len(messages))
                                 \o << [type |-> "human", content |-> state,
                                        include_in_memory |-> TRUE] >> ]_vars

\* after two successful steps five stored messages precede the observation;
\* here some but not all of the history was evicted
C16_Witness ==
  /\ pc = "ainvoke"
  /\ step = 3
  /\ ~IsFailure(history[1]) /\ ~IsFailure(history[2])
  /\ Len(input_messages) > 3
  /\ Len(input_messages) < 7
  /\ input_messages[Len(input_messages)].content = state

\* C18: a step that ends in the except clause appends the formatted error as
\* a Human message at the end of the conversation, and when the next step
\* neither evicts nor truncates, the list handed to the LLM contains it.
C18_ErrorFedToNextStep ==
  [][ /\ StepEndsInExcept
        => messages'[Len(messages')] = [type |-> "human", content |-> pending.msg,
                                        include_in_memory |-> TRUE]
      /\ (pc = "get_next_action" /\ pc' = "ainvoke" /\ history # <<>> /\ IsFailure(LastEntry)
            /\ Len(input_messages') = Len(messages) + 1)
        => \E i \in 3..(Len(input_messages') - 1) :
             /\ input_messages'[i].type = "human"
             /\ input_messages'[i].content = LastEntry.result.error ]_vars

C18_Witness ==
  /\ pc = "ainvoke"
  /\ step = 2
  /\ IsFailure(history[1])
  /\ history[1].result.error = "invalid output"
  /\ Len(input_messages) = 4
  /\ input_messages[3].content = "invalid output"

\* C19: the LLM's decision is appended as one AI message after all stored
\* messages, and the result of the step is appended after it as Human
\* messages only.
C19_AIMessageBeforeResult ==
  [][ /\ (pc = "ainvoke" /\ pc' = "act")
        => /\ Len(messages') = Len(messages) + 1
           /\ SubSeq(messages', 1, Len(messages)) = messages
           /\ messages'[Len(messages')].type = "ai"
           /\ messages'[Len(messages')].content = model_output'
      /\ (pc = "act" /\ pc' = "step_done")
        => /\ Len(messages') > Len(messages)
           /\ SubSeq(messages', 1, Len(messages)) = messages
           /\ messages[Len(messages)].type = "ai"
           /\ messages[Len(messages)].content = model_output
           /\ \A i \in (Len(messages) + 1)..Len(messages') : messages'[i].type = "human" ]_vars

C19_Witness ==
  /\ pc = "step_done"
  /\ Len(history) = 2
  /\ ~IsFailure(history[2])
  /\ history[2].result.extracted_content = "page text"
  /\ Len(messages) = 6
  /\ messages[5].type = "ai"
  /\ messages[6].content = "page text"

\* C20: after every step, successful or failed, n_steps is its initial value
\* plus the number of steps taken.
C20_StepCounterAdvances ==
  pc = "step_done" => n_steps = 1 + Len(history)

\* an agent that has neither finished nor failed out of run()
Unfinished(a) == agents[a].run # "done"

\* the step coroutines of agent a that have begun and not ended
StepsInProgress(a) ==
  { i \in 1..Len(agents[a].steps) : agents[a].steps[i] \notin {"finished", "raised"} }

\* the step coroutines of agent a with an external call outstanding
CallsOutstanding(a) ==
  { i \in 1..Len(agents[a].steps) : agents[a].steps[i] \in {"get_state", "ainvoke", "act"} }

\* C14: while an agent is in its rate-limit backoff sleep, every other agent
\* that has not finished can take its next step.
C14_BackoffBlocksOnlyOwnAgent ==
  \A a \in Agents :
    StepsAt(a, "sleep") # {} =>
      \A b \in Agents \ {a} : Unfinished(b) => ENABLED AgentNext(b)

\* C17: an agent never has two steps, nor two LLM calls, in progress, and
\* while one of its external calls stays outstanding its failure counter,
\* history and messages do not change.
C17_OneStepAtATime ==
  [][ \A a \in Agents :
        /\ Cardinality(StepsInProgress(a)) <= 1
        /\ Cardinality(StepsAt(a, "ainvoke")) <= 1
        /\ \A i \in CallsOutstanding(a) :
             agents'[a].steps[i] = agents[a].steps[i]
               => /\ agents'[a].consecutive_failures = agents[a].consecutive_failures
                  /\ agents'[a].history = agents[a].history
                  /\ agents'[a].messages = agents[a].messages ]_vars

\* both agents have an LLM call outstanding, one of them in its second step
C17_Witness ==
  /\ StepsAt(1, "ainvoke") # {}
  /\ StepsAt(2, "ainvoke") # {}
  /\ agents[1].history = 1
  /\ thread = 0

\* a step whose transcript could not be written is being handled or was the
\* last step recorded
SaveFailed == history # <<>> /\ LastEntry.result.error = format_error(SaveError)

\* C21 as stated: after a step whose transcript could not be written, run()
\* goes on with the following step whenever the loop has iterations left.
C21_NextStepAfterSaveFailure ==
  [][ (pc = "for" /\ SaveFailed /\ step < max_steps /\ pc' # pc) => pc' = "get_state" ]_vars

\* C21 (amended): a failure to write the transcript never makes run() raise:
\* it is caught in step(), counted as one failure and recorded, and run()
\* goes on to its next iteration, which begins the following step unless the
\* failure has brought consecutive_failures to max_failures.
C21_SaveFailureIsNonFatal ==
  [][ /\ pc = "ainvoke" => (stop' = "none" /\ pc' \in {"ainvoke", "act", "except"})
      /\ (pc = "except" /\ pending = SaveError)
           => /\ pc' = "step_done"
              /\ stop' = "none"
              /\ consecutive_failures' = consecutive_failures + 1
              /\ history'[Len(history')].result.error = format_error(SaveError)
      /\ (pc = "step_done" /\ SaveFailed) => (pc' = "for" /\ stop' = "none")
      /\ (pc = "for" /\ SaveFailed /\ step < max_steps /\ pc' # pc)
           => IF consecutive_failures < max_failures
              THEN pc' = "get_state" /\ stop' = "none"
              ELSE pc' = "finally" /\ stop' = "MaxFailures" ]_vars

\* the transcript of step 1 could not be written and step 2 has begun
C21_Witness ==
  /\ pc = "get_state"
  /\ step = 2
  /\ save_conversation_path
  /\ SaveFailed
  /\ consecutive_failures = 1

\* the children of every node of the snapshot
ChildrenOf == [n \in DOMAIN dom |-> dom[n].children]

\* the nodes of the subtree of n, n first, in depth-first order
Subtree(n) == Preorder(ChildrenOf, n)

\* the proper ancestors of m
RECURSIVE Ancestors(_)
Ancestors(m) ==
  IF dom[m].parent = NoNode THEN {} ELSE {dom[m].parent} \cup Ancestors(dom[m].parent)

\* m is an element that carries a highlight_index, 0 included
Highlighted(m) == dom[m].kind = "element" /\ dom[m].highlight_index # NoIndex

\* m is a text node none of whose ancestors is highlighted
FreeText(m) == dom[m].kind = "text" /\ \A a \in Ancestors(m) : ~Highlighted(a)

\* the depth of m below n, for m in the subtree of n
RECURSIVE DepthBelow(_, _)
DepthBelow(n, m) == IF m = n THEN 0 ELSE 1 + DepthBelow(n, dom[m].parent)

\* the height of the subtree of n
Height(n) ==
  LET s == Subtree(n)
  IN CHOOSE h \in 0..Len(s) :
       /\ \E k \in 1..Len(s) : DepthBelow(n, s[k]) = h
       /\ \A k \in 1..Len(s) : DepthBelow(n, s[k]) <= h

\* m, in the subtree of n, is in the subtree of a highlighted element other
\* than n
Swallowed(n, m) ==
  \E a \in (Ancestors(m) \cup {m}) \ (Ancestors(n) \cup {n}) : Highlighted(a)

\* the texts of the text nodes of the subtree of n that are not swallowed and
\* lie at most max_depth below n (any depth for -1), in depth-first order
TextsBelow(n, max_depth) ==
  LET kept == SelectSeq(Subtree(n),
                        LAMBDA m : /\ dom[m].kind = "text"
                                   /\ ~Swallowed(n, m)
                                   /\ (max_depth = -1 \/ DepthBelow(n, m) <= max_depth))
  IN [k \in 1..Len(kept) |-> dom[kept[k]].text]

\* the number of lines of a text
CountNewlines(s) == Cardinality({ k \in 1..Len(s) : SubSeq(s, k, k) = "\n" })

CountLines(s) == IF s = "" THEN 0 ELSE 1 + CountNewlines(s)

\* the nodes of the subtree of n that get an entry in the output of
\* clickable_elements_to_string, in depth-first order
Listed(n) == SelectSeq(Subtree(n), LAMBDA m : Highlighted(m) \/ FreeText(m))

CalledClickable == call.method = "clickable_elements_to_string"
CalledGetAllText == call.method = "get_all_text_till_next_clickable_element"
CalledFileUpload == call.method = "get_file_upload_element"

\* C22 as stated: the number of lines of the output of
\* clickable_elements_to_string is the number of highlighted elements plus
\* the number of text nodes without a highlighted ancestor.
C22_LineCount ==
  CalledClickable => CountLines(call.result) = Len(Listed(call.self))

\* C22 (amended): the output of clickable_elements_to_string is, joined by
\* newlines and in depth-first order, one entry per highlighted element and
\* one "[]" entry per text node without a highlighted ancestor, and nothing
\* else; an entry has as many lines as its text, so the number of lines is
\* the number of entries when no entry's text contains a newline.
C22_EntriesDepthFirst ==
  CalledClickable =>
    LET listed == Listed(call.self)
        entries == [k \in 1..Len(listed) |->
                      IF Highlighted(listed[k])
                      THEN element_line(listed[k], call.arg)
                      ELSE "[]" \o dom[listed[k]].text]
    IN /\ call.result = join(entries, "\n")
       /\ CountLines(call.result)
            = Len(listed) + sum([k \in 1..Len(listed) |-> CountNewlines(entries[k])])

\* a text before a highlighted element and a text inside it: two entries
C22_Witness ==
  /\ CalledClickable
  /\ call.self = 1
  /\ call.arg = << "class" >>
  /\ call.result = "[]A\n[0]<button class=\"btn\">A</button>"

\* C23 as stated: get_all_text_till_next_clickable_element on node n returns
\* the newline-joined texts, in depth-first order, of the text nodes of n's
\* subtree that are not in the subtree of a highlighted element other than n.
C23_JoinedTextTillHighlight ==
  (CalledGetAllText /\ call.arg = -1)
    => call.result = join(TextsBelow(call.self, -1), "\n")

\* C23 (amended): the result is that newline-joined text with the leading
\* and trailing whitespace of the joined string removed; a highlight_index
\* of 0 on a descendant swallows its subtree like any other index, and n's
\* own index does not suppress n's text.
C23_StrippedTextTillHighlight ==
  (CalledGetAllText /\ call.arg = -1)
    => call.result = strip(join(TextsBelow(call.self, -1), "\n"))

\* called on a highlighted element that has a text of its own and a
\* highlighted descendant with a text
C23_Witness ==
  /\ CalledGetAllText
  /\ call.arg = -1
  /\ Highlighted(call.self)
  /\ call.result = "A"
  /\ \E m \in Texts : m \in { Subtree(call.self)[k] : k \in 1..Len(Subtree(call.self)) }
                       /\ Swallowed(call.self, m)

\* C24: with max_depth = 0 the result is the empty string; with max_depth =
\* d > 0 the result holds exactly the texts at depth at most d below the
\* start node (that are not swallowed); with max_depth = -1 the result is
\* the one of every finite depth from the height of the subtree on.
C24_MaxDepth ==
  CalledGetAllText =>
    /\ call.arg = 0 => call.result = ""
    /\ call.arg > 0 => call.result = strip(join(TextsBelow(call.self, call.arg), "\n"))
    /\ call.arg = -1 =>
         \A d \in Height(call.self)..(MaxNodes + 1) :
           get_all_text_till_next_clickable_element(call.self, d) = call.result

\* depth 1 keeps the text at depth 1 and drops the text at depth 2
C24_Witness ==
  /\ CalledGetAllText
  /\ call.arg = 1
  /\ call.result = "A"
  /\ Len(TextsBelow(call.self, -1)) = 2
  /\ Len(TextsBelow(call.self, 1)) = 1

\* C25: when get_file_upload_element returns a node, calling it on that node
\* returns the same node, whatever check_siblings is.
C25_FileUploadIdempotent ==
  (CalledFileUpload /\ call.result # NoNode)
    => \A check_siblings \in BOOLEAN :
         get_file_upload_element(call.result, check_siblings) = call.result

\* the node found is not the node asked and has a file input as a sibling
C25_Witness ==
  /\ CalledFileUpload
  /\ call.result # NoNode
  /\ call.result # call.self
  /\ \E m \in Elements \ {call.result} :
       /\ is_file_input(m)
       /\ dom[m].parent = dom[call.result].parent

\* the file inputs among the nodes of a sequence, in order
FileInputs(nodes) == SelectSeq(nodes, LAMBDA m : is_file_input(m))

\* the subtrees of the other children of n's parent, one after the other
RECURSIVE SubtreesOf(_)
SubtreesOf(nodes) ==
  IF nodes = << >> THEN << >> ELSE Subtree(Head(nodes)) \o SubtreesOf(Tail(nodes))

SiblingSubtrees(n) ==
  IF dom[n].parent = NoNode THEN << >>
  ELSE SubtreesOf(SelectSeq(dom[dom[n].parent].children, LAMBDA m : m # n))

\* C26: get_file_upload_element returns the first file input in the order:
\* the node, its descendants depth-first, then, only with check_siblings,
\* the subtrees of the parent's other children; without check_siblings a
\* file input found only among the siblings gives None.
C26_FirstFileInputInOrder ==
  CalledFileUpload =>
    LET own == FileInputs(Subtree(call.self))
        others == FileInputs(SiblingSubtrees(call.self))
    IN /\ own # << >> => call.result = own[1]
       /\ (own = << >> /\ call.arg /\ others # << >>) => call.result = others[1]
       /\ (own = << >> /\ (~call.arg \/ others = << >>)) => call.result = NoNode

\* the only file input is a sibling and check_siblings is false
C26_Witness ==
  /\ CalledFileUpload
  /\ call.arg = FALSE
  /\ call.result = NoNode
  /\ FileInputs(SiblingSubtrees(call.self)) # << >>

\* C27: the hashing function is invoked at most once per node: at the first
\* read of the node's hash; every read returns the value computed then, also
\* after a field of the node was assigned.
C27_HashComputedOnce ==
  [][ \A n \in Elements :
        /\ hash_calls'[n] <= 1
        /\ (dom[n].hash = Null /\ dom'[n].hash # Null)
             => /\ hash_calls'[n] = hash_calls[n] + 1
                /\ dom'[n].hash = _hash_dom_element(n)
        /\ dom[n].hash # Null
             => /\ dom'[n].hash = dom[n].hash
                /\ hash_calls'[n] = hash_calls[n]
        /\ (call'.method = "hash" /\ call'.self = n)
             => /\ call'.result = dom'[n].hash
                /\ hash_calls'[n] = 1 ]_vars

\* the hash was read, the tag name was changed, the hash was read again
C27_Witness ==
  /\ call.method = "hash"
  /\ call.self = 1
  /\ call.result = "hash_div"
  /\ dom[1].tag_name = "span"
  /\ hash_calls[1] = 1

\* the positions of the newlines of a text
Newlines(s) == { k \in 1..Len(s) : SubSeq(s, k, k) = "\n" }

\* the lines of a text
RECURSIVE SplitLines(_)
SplitLines(s) ==
  IF Newlines(s) = {} THEN << s >>
  ELSE LET k == CHOOSE x \in Newlines(s) : \A y \in Newlines(s) : x <= y
       IN << SubSeq(s, 1, k - 1) >> \o SplitLines(SubSeq(s, k + 1, Len(s)))

\* the lines of the observation that begin with the given text
LinesStarting(s, start) ==
  SelectSeq(SplitLines(s), LAMBDA l : Len(l) >= Len(start) /\ SubSeq(l, 1, Len(start)) = start)

\* C28: for result i of N with a non-empty error, the observation has one
\* line "Action error i/N: ..." followed by the whole error when it is no
\* longer than max_error_length, else by exactly its last max_error_length
\* characters; a result without error has no such line.
C28_ErrorTailKept ==
  call.method = "get_user_message" =>
    \A i \in 1..Len(call.self) :
      LET error == call.self[i].error
          start == "Action error " \o ToString(i) \o "/" \o ToString(Len(call.self)) \o ": ..."
          lines == LinesStarting(call.result, start)
      IN IF Truthy(error)
         THEN /\ Len(lines) = 1
              /\ Len(error) <= call.arg => lines[1] = start \o error
              /\ Len(error) > call.arg
                   => /\ Len(lines[1]) = Len(start) + call.arg
                      /\ lines[1] = start \o SubSeq(error, Len(error) - call.arg + 1, Len(error))
         ELSE lines = << >>

\* a long error after a short one: the tail of the long one is rendered
C28_Witness ==
  /\ call.method = "get_user_message"
  /\ call.arg = 3
  /\ Len(call.self) = 2
  /\ call.self[1].error = "ab"
  /\ call.self[2].error = "abcdefg"
  /\ LinesStarting(call.result, "Action error 2/2: ...") = << "Action error 2/2: ...efg" >>
  /\ LinesStarting(call.result, "Action error 1/2: ...") = << "Action error 1/2: ...ab" >>

\* the LLM call of this step was given a truncated observation: system, task
\* and the observation of the step together exceed the budget
Truncated ==
  /\ pc = "ainvoke"
  /\ current_message_too_long(<< input_messages[1], input_messages[2], HumanMessage(state) >>,
                              max_input_tokens)

\* the tokens left for the observation after system and task
Available ==
  max_input_tokens - get_message_tokens(input_messages[1])
    - get_message_tokens(input_messages[2])

\* C29: the length chosen by the binary search for the truncated observation
\* satisfies tokens(text[:result]) <= available < tokens(text[:result+1]),
\* text being the string the search measures; a result equal to the full
\* length has no longer prefix to compare with.  Stated for the case that
\* system and task leave room (else no prefix fits, see C9).
C29_LongestPrefixThatFits ==
  (Truncated /\ Available >= 0) =>
    LET text == get_buffer_string(HumanMessage(state))
        result == Len(input_messages[3].content)
    IN /\ get_num_tokens(Prefix(text, result)) <= Available
       /\ result < Len(state) => Available < get_num_tokens(Prefix(text, result + 1))

\* C30: when system, task and the new observation alone exceed the budget,
\* budget enforcement returns exactly system, task and the observation cut
\* to a prefix of its text, and the stored conversation becomes exactly
\* system and task: no prior history is kept.
C30_TruncationDropsHistory ==
  [][ (/\ pc = "get_next_action"
       /\ pc' = "ainvoke"
       /\ current_message_too_long(Append(messages, HumanMessage(state)), max_input_tokens))
        => /\ Len(input_messages') = 3
           /\ input_messages'[1] = messages[1]
           /\ input_messages'[2] = messages[2]
           /\ input_messages'[3].type = "human"
           /\ \E k \in 0..Len(state) : input_messages'[3].content = Prefix(state, k)
           /\ messages' = << messages[1], messages[2] >> ]_vars

\* the second step's observation is cut and the first step's messages are gone
C30_Witness ==
  /\ Truncated
  /\ step = 2
  /\ ~IsFailure(history[1])
  /\ Len(messages) = 2
  /\ Len(input_messages) = 3
  /\ Len(input_messages[3].content) > 0
  /\ Len(input_messages[3].content) < Len(state)

\* a Human message that carries the text of a browser-state observation or a
\* non-empty prefix of it
IsObservation(m) ==
  /\ m.type = "human"
  /\ Len(m.content) >= 1
  /\ \E o \in Observations : m.content = Prefix(o, Len(m.content))

\* C31: after budget enforcement without truncation the stored conversation
\* is the returned list minus its last element, which is the observation of
\* the step; no stored message is ever a browser-state observation.
C31_BaselineExcludesObservation ==
  /\ (pc = "ainvoke" /\ ~Truncated) =>
       /\ messages = SubSeq(input_messages, 1, Len(input_messages) - 1)
       /\ input_messages[Len(input_messages)] = HumanMessage(state)
  /\ \A i \in 1..Len(messages) : ~IsObservation(messages[i])

\* the third step keeps part of the history of two successful steps: the
\* baseline is what the LLM is given, without the observation
C31_Witness ==
  /\ pc = "ainvoke"
  /\ ~Truncated
  /\ step = 3
  /\ ~IsFailure(history[1]) /\ ~IsFailure(history[2])
  /\ Len(input_messages) > 3
  /\ Len(input_messages) < 7
  /\ Len(messages) = Len(input_messages) - 1
  /\ IsObservation(input_messages[Len(input_messages)])

\* C32: for a fixed candidate list, of two calls of budget enforcement that
\* do not fail hard, the one with the smaller budget returns at most as
\* many messages as the one with the larger budget.
C32_CountMonotoneInBudget ==
  [][ (/\ call.method = "_cut_input_messages"
       /\ call'.method = "_cut_input_messages"
       /\ call'.self = call.self
       /\ ~call.result.raised
       /\ ~call'.result.raised
       /\ call'.arg <= call.arg)
        => Len(call'.result.input_messages) <= Len(call.result.input_messages) ]_vars

\* a candidate list with four history messages is returned with part of its
\* history; a larger budget returns it whole
C32_Witness ==
  /\ call.method = "_cut_input_messages"
  /\ Len(call.self) = 7
  /\ ~call.result.raised
  /\ Len(call.result.input_messages) > 3
  /\ Len(call.result.input_messages) < 7
  /\ \E larger \in BudgetRange :
       /\ larger > call.arg
       /\ Len(_cut_input_messages(call.self, larger).input_messages) = 7

\* positions of the stored messages that are not Human messages with
\* include_in_memory false
Remembered(ms) == { i \in 1..Len(ms) : ms[i].type # "human" \/ ms[i].include_in_memory }

\* C33: feeding a result back leaves, in their order, exactly the stored
\* messages that are not Human messages with include_in_memory false, and
\* after them only the Human messages of the result.
C33_FilterDropsOnlyUnremembered ==
  call.method = "_update_messages_with_result" =>
    LET stored == call.self
        out == call.result
        K == Remembered(stored)
    IN /\ Len(out) - Cardinality(K) \in {1, 2}
       /\ \A i \in K : out[Cardinality({ k \in K : k <= i })] = stored[i]
       /\ \A j \in (Cardinality(K) + 1)..Len(out) :
            /\ out[j].type = "human"
            /\ out[j].content \in {call.arg.extracted_content, call.arg.error, ""}

\* a Human message with include_in_memory false stood between a remembered
\* Human message and a decision; the two are now adjacent
C33_Witness ==
  /\ call.method = "_update_messages_with_result"
  /\ Len(call.self) = 5
  /\ call.self[3] = HumanMessage("page text")
  /\ call.self[4] = OneShotMessage("use the search box")
  /\ call.self[5] = AIMessage("click(1)")
  /\ Len(call.result) = 5
  /\ call.result[3] = HumanMessage("page text")
  /\ call.result[4] = AIMessage("click(1)")
  /\ call.result[5] = HumanMessage("no such element")

\* the number of walks of 1 to steps child steps that lead from node n to
\* the text node t and enter no highlighted element other than self; the
\* first step goes to one of the children of n from position k on
RECURSIVE WalksBelow(_, _, _, _, _)
WalksBelow(self, n, k, t, steps) ==
  IF steps = 0 \/ k > Len(dom[n].children) THEN 0
  ELSE LET c == dom[n].children[k]
       IN (IF c = t THEN 1
           ELSE IF Highlighted(c) /\ c # self THEN 0
           ELSE WalksBelow(self, c, 1, t, steps - 1))
          + WalksBelow(self, n, k + 1, t, steps)

\* the number of walks of at most max_depth child steps from self to t
WalksToText(self, max_depth, t) == WalksBelow(self, self, 1, t, max_depth)

\* C34: on a graph with a cycle a call with a finite max_depth >= 0 returns,
\* and its result holds the text of a text node once for every walk of at
\* most max_depth child steps that leads to it from the start node (without
\* passing a highlighted element), and nothing else.
C34_CyclicGraphBounded ==
  CalledGetAllText =>
    LET lines == IF call.result = "" THEN << >> ELSE SplitLines(call.result)
    IN /\ call.arg \in BoundedDepths
       /\ \A k \in 1..Len(lines) : \E t \in Texts : dom[t].text = lines[k]
       /\ \A t \in Texts :
            Cardinality({ k \in 1..Len(lines) : lines[k] = dom[t].text })
              = WalksToText(call.self, call.arg, t)

\* the cycle A -> B -> A, each with one text: max_depth 2 yields both texts
\* once, max_depth 4 would yield them twice
C34_Witness ==
  /\ CalledGetAllText
  /\ DOMAIN dom = 1..4
  /\ dom[1].children = << 2, 3 >>
  /\ dom[3].children = << 4, 1 >>
  /\ dom[2].kind = "text"
  /\ dom[4].kind = "text"
  /\ call.self = 1
  /\ call.arg = 2
  /\ call.result = "text_2\ntext_4"
  /\ get_all_text_till_next_clickable_element(1, 4) = "text_2\ntext_4\ntext_2\ntext_4"

\* budget enforcement was called, did not fail hard and did not truncate
ReturnedUntruncated ==
  /\ call.method = "_cut_input_messages"
  /\ ~call.result.raised
  /\ ~current_message_too_long(call.self, call.arg)

\* C35: when budget enforcement returns without truncating the observation,
\* the token counts of the returned messages add up to at most the budget.
C35_UntruncatedFitsBudget ==
  ReturnedUntruncated =>
    sum(_calc_token_count(call.result.input_messages)) <= call.arg

\* two of four history messages had to go: the candidate list exceeded the
\* budget and one message more would still exceed it
C35_Witness ==
  /\ ReturnedUntruncated
  /\ Len(call.self) = 7
  /\ Len(call.result.input_messages) = 5
  /\ sum(_calc_token_count(call.self)) > call.arg
  /\ sum(_calc_token_count(Pop2(call.self))) > call.arg
  /\ sum(_calc_token_count(call.result.input_messages)) <= call.arg

\* C36: when run() has stopped because the task is complete, the counter of
\* consecutive failures is 0 and the last history entry is the one of a step
\* that succeeded with a result marked done.
C36_CompletedWithoutFailures ==
  stop = "Completed" =>
    /\ consecutive_failures = 0
    /\ history # << >>
    /\ ~IsFailure(LastEntry)
    /\ LastEntry.result.is_done

\* the run completed in its second step after a first step that failed
C36_Witness ==
  /\ stop = "Completed"
  /\ Len(history) = 2
  /\ IsFailure(history[1])
  /\ history[2].result.is_done
  /\ consecutive_failures = 0

\* C37: when controller.act raises after the LLM returned a decision, the
\* conversation keeps the AI message of that decision as its last message,
\* the step then appends the error as a Human message right after it, and
\* the history entry of the step has a null model_output.
C37_DecisionKeptWhenActRaises ==
  [][ /\ (pc = "act" /\ pc' = "except")
        => /\ pending' \in ActErrors
           /\ messages' = messages
           /\ messages[Len(messages)] = [type |-> "ai", content |-> model_output,
                                         include_in_memory |-> TRUE]
           /\ model_output' = model_output
      /\ (StepEndsInExcept /\ pending \in ActErrors)
        => /\ model_output \in AgentOutputs
           /\ messages[Len(messages)].type = "ai"
           /\ messages[Len(messages)].content = model_output
           /\ messages' = Append(messages, [type |-> "human", content |-> pending.msg,
                                            include_in_memory |-> TRUE])
           /\ Len(history') = Len(history) + 1
           /\ history'[Len(history')].model_output = Null
           /\ history'[Len(history')].result.error = pending.msg ]_vars

\* the action of the first step raised: decision and error are the last two
\* messages, the entry has no model_output
C37_Witness ==
  /\ pc = "step_done"
  /\ Len(history) = 1
  /\ history[1].model_output = Null
  /\ history[1].result.error = "click failed"
  /\ Len(messages) = 4
  /\ messages[3] = AIMessage("click(1)")
  /\ messages[4] = HumanMessage("click failed")

\* C38: when writing the transcript raises, the step goes from the LLM call
\* to the except clause with the AI message appended, and from there to its
\* end without calling controller.act: the counter of consecutive failures
\* grows by one and the history entry carries the error and a null
\* model_output.
C38_SaveFailureSkipsAction ==
  [][ /\ (pc = "ainvoke" /\ pc' = "except" /\ pending' = SaveError)
        => /\ save_conversation_path
           /\ n_steps' = n_steps
           /\ model_output' = model_output
           /\ Len(messages') = Len(messages) + 1
           /\ SubSeq(messages', 1, Len(messages)) = messages
           /\ messages'[Len(messages')].type = "ai"
           /\ messages'[Len(messages')].content \in AgentOutputs
      /\ (pc = "except" /\ pending = SaveError)
        => /\ pc' = "step_done"
           /\ consecutive_failures' = consecutive_failures + 1
           /\ Len(history') = Len(history) + 1
           /\ history'[Len(history')].model_output = Null
           /\ history'[Len(history')].result.error = format_error(SaveError)
           /\ messages[Len(messages)].type = "ai"
           /\ SubSeq(messages', 1, Len(messages)) = messages ]_vars

\* the transcript of the second step could not be written after a first
\* step that succeeded
C38_Witness ==
  /\ pc = "step_done"
  /\ Len(history) = 2
  /\ ~IsFailure(history[1])
  /\ IsFailure(history[2])
  /\ history[2].result.error = "cannot write"
  /\ consecutive_failures = 1
  /\ messages[Len(messages) - 1] = AIMessage("click(1)")
  /\ messages[Len(messages)] = HumanMessage("cannot write")

\* C39: once run() is over, however it ended, the browser is closed exactly
\* when the controller was not injected; before that, and for an injected
\* controller at any time, the browser is not closed.
C39_BrowserClosedUnlessInjected ==
  /\ pc = "done" =>
       /\ stop \in {"Completed", "MaxFailures", "MaxSteps", "Raised"}
       /\ browser_closed <=> ~controller_injected
  /\ browser_closed => (pc = "done" /\ ~controller_injected)

\* an exception left the second step and run(); the agent had made its own
\* controller and the browser is closed
C39_Witness ==
  /\ pc = "done"
  /\ stop = "Raised"
  /\ step = 2
  /\ Len(history) = 1
  /\ ~controller_injected
  /\ browser_closed

\* the RecordableEvents dispatched by handler h
DispatchedBy(h) == { k \in 1..Len(recorder.dispatched) : recorder.dispatched[k].by = h }

\* C40: every RecordableEvent was dispatched by a handler of a mouse press
\* or a typed character that found recording on when it started; a handler
\* that found recording off has returned without asking for the browser
\* state and without dispatching.
C40_DispatchOnlyWhileRecording ==
  /\ \A k \in 1..Len(recorder.dispatched) :
       LET h == recorder.handlers[recorder.dispatched[k].by]
       IN /\ h.recording_at_start
          /\ h.queried
          /\ h.pc = "returned"
          /\ h.event.type \in {"mousePressed", "char"}
  /\ \A h \in 1..Len(recorder.handlers) :
       ~recorder.handlers[h].recording_at_start =>
         /\ recorder.handlers[h].pc = "returned"
         /\ ~recorder.handlers[h].queried
         /\ DispatchedBy(h) = {}

\* a press handled while recording was on was dispatched as a click after
\* stop_recording; the same press handled after it dispatched nothing
C40_Witness ==
  /\ ~recorder._is_recording
  /\ Len(recorder.handlers) = 2
  /\ recorder.handlers[1].recording_at_start
  /\ ~recorder.handlers[2].recording_at_start
  /\ recorder.handlers[1].event = recorder.handlers[2].event
  /\ recorder.handlers[2].event.type = "mousePressed"
  /\ recorder.handlers[2].pc = "returned"
  /\ Len(recorder.dispatched) = 1
  /\ recorder.dispatched[1].action = "click"
  /\ recorder.dispatched[1].by = 1

TypeOK ==
  /\ pc \in {"idle", "for", "get_state", "get_next_action", "ainvoke", "except", "sleep",
             "act", "step_done", "finally", "done"}
  /\ stop \in {"none", "Completed", "MaxFailures", "MaxSteps", "Raised"}
  /\ consecutive_failures \in Nat
  /\ step \in 0..max_steps
====
